---- MODULE Spec2Model ----
(***************************************************************************)
(* A model of the pathway registration / dispatch engine and its write     *)
(* path (PathwaysBuilder, src/src/pathways/builder.ts).                    *)
(*                                                                         *)
(* The builder's fields are the variables.  Every async method is cut at   *)
(* its await points: one action runs the code from one suspension point to *)
(* the next, as the single-threaded event loop does.  What user code and   *)
(* the collaborators do (a handler resolving or throwing, the state store  *)
(* answering or failing, the writer returning ids) is a choice with \E.    *)
(***************************************************************************)
EXTENDS Integers, Sequences, FiniteSets, TLC

VARIABLES
    pathways,        \* keys registered so far (this.pathways[path] = true)
    handlers,        \* key -> bound handler, or UNDEF
    schemas,         \* key -> schema, or UNDEF
    writable,        \* key -> Some(BOOLEAN), or None
    timeouts,        \* string -> Some(ms), or None (indexed by whatever the code indexes it with)
    maxRetries,      \* key -> Some(retries), or None
    retryDelays,     \* key -> Some(ms), or None
    filePathways,    \* set of keys registered as file pathways
    writers,         \* key -> "webhook" | "file" | UNDEF
    batchWriters,    \* key -> "batch" | UNDEF
    pathwayTimeoutMs,\* builder-wide confirmation timeout
    auditHandler,    \* TRUE when withAudit was called
    userIdResolver,  \* the registry-wide user resolver, or UNDEF
    sessionUserResolvers, \* session id -> the resolver registered for it, or UNDEF
    pathwayState,    \* the state store: the set of event ids marked processed
    calls,           \* the process(...) calls, each with its position and history
    writes,          \* the write(...) / writeBatch(...) calls
    now,             \* the clock (Date.now()), in ms
    ticks,           \* how many more steps the clock takes
    sessionBuilders, \* the SessionPathwayBuilder wrappers around the builder
    secretKey,       \* the secret the PathwayRouter was constructed with
    routed,          \* the processEvent(...) calls of the PathwayRouter
    beforeObservable,\* key -> the subscriptions attached to its `before` Subject
    afterObservers,  \* key -> the subscriptions attached to its `after` Subject
    errorObservers,  \* key -> the subscriptions attached to its error Subject
    subscriptions,   \* the subscribe(...) / onError(...) calls and what each received
    sessionTimeouts, \* session id -> when the timeout of its resolver entry is due
    timers,          \* the pending timeouts of the session resolver store
    sessionSets,     \* session id -> the last resolver registered for it, and when
    stateStore,      \* a processing state store: its configuration, rows and calls
    scenario,        \* which inputs the environment draws
    handleOutcome    \* how the latest handle(...) call ended

\* the tables register() fills
tables == <<pathways, schemas, writable, timeouts, maxRetries, retryDelays,
            filePathways, writers, batchWriters>>
\* what the constructor and the with...() methods set
hooks == <<pathwayTimeoutMs, auditHandler, userIdResolver, sessionUserResolvers>>
registry == <<tables, handlers, hooks>>
\* the objects that wrap the builder: session wrappers and the router
wrappers == <<sessionBuilders, secretKey, routed>>
\* the time to live of the session resolver entries
sessionTtl == <<sessionTimeouts, timers, sessionSets>>
\* the lifecycle channels of the keys
subjects == <<beforeObservable, afterObservers, errorObservers>>

vars == <<tables, handlers, hooks, pathwayState, calls, writes, now, ticks, wrappers, subjects,
          subscriptions, sessionTimeouts, timers, sessionSets, stateStore, scenario,
          handleOutcome>>

-----------------------------------------------------------------------------
(* Program constants *)

DEFAULT_PATHWAY_TIMEOUT_MS == 10000
DEFAULT_MAX_RETRIES == 3
DEFAULT_RETRY_DELAY_MS == 500
POLL_INTERVAL_MS == 100
DEFAULT_SESSION_USER_RESOLVER_TTL_MS == 10000
DEFAULT_TTL_MS == 300000

(* Bounds of the model *)

MaxContractRetries == 1  \* largest maxRetries a contract states
MaxTicks == 2            \* clock steps in one behaviour

UNDEF == "undefined"

FlowTypes == {"f1", "f2"}
EventTypes == {"t1"}
EventIds == {"e1", "e2"}
CallIds == {"c1", "c2"}
WriteIds == {"w1", "w2"}
SessionIds == {"s1", "s2"}
UserIds == {"u0", "u1", "u2"}
Payloads == {"p1", "p2"}
Schemas == {"S1", "S12"}
HandlerFns == {"h1", "h2"}

\* builder.ts:555  `${contract.flowType}/${contract.eventType}`
PathwayKey(flowType, eventType) == flowType \o "/" \o eventType

Keys == {PathwayKey(f, e) : f \in FlowTypes, e \in EventTypes}

\* every string the builder's tables are ever indexed with
Strings == Keys \cup EventIds

\* Value.Check(schema, data): schema S1 accepts p1 only, S12 accepts p1 and p2
ValueCheck(schema, data) ==
    CASE schema = "S1" -> data = "p1"
      [] schema = "S12" -> data \in {"p1", "p2"}
      [] OTHER -> FALSE

\* An optional number or boolean is the empty set (undefined) or a singleton
None == {}
Some(v) == {v}

\* x ?? y
Coalesce(x, y) == IF x = None THEN y ELSE CHOOSE v \in x : TRUE

-----------------------------------------------------------------------------
(* Histories.  Every process call keeps the list of what it did that the   *)
(* outside can observe (lifecycle emissions, handler invocations, calls to *)
(* the state store, timers) and of how the handler and the store answered. *)
(* n is the attempt number, the error's origin attempt, or the delay; src  *)
(* tells a handler's error from the store's.                               *)

Ev(ev, n, src) == [ev |-> ev, n |-> n, src |-> src]

RECURSIVE CountEv(_, _)
CountEv(tr, ev) ==
    IF tr = <<>> THEN 0
    ELSE (IF Head(tr).ev = ev THEN 1 ELSE 0) + CountEv(Tail(tr), ev)

\* position of the first entry of kind ev, 0 if none
FirstEv(tr, ev) ==
    IF \E i \in 1..Len(tr) : tr[i].ev = ev
    THEN CHOOSE i \in 1..Len(tr) : tr[i].ev = ev /\ \A j \in 1..(i - 1) : tr[j].ev # ev
    ELSE 0

NoError == [src |-> "none", n |-> 0]
HandlerError(attempt) == [src |-> "handler", n |-> attempt]
StoreError == [src |-> "store", n |-> 0]
NotFoundError == [src |-> "notFound", n |-> 0]
ValidationError == [src |-> "validation", n |-> 0]
AuditError == [src |-> "audit", n |-> 0]

IdleCall ==
    [pc |-> "idle", pathway |-> UNDEF, eventId |-> UNDEF, payload |-> UNDEF,
     retryCount |-> 0, maxRetries |-> 0, retryDelayMs |-> 0,
     error |-> NoError, thrown |-> NoError, trace |-> <<>>,
     seen |-> [registered |-> FALSE, handler |-> UNDEF, schema |-> UNDEF,
               maxRetries |-> None, retryDelayMs |-> None, audit |-> FALSE,
               processed |-> FALSE, auditThrows |-> FALSE]]

Log(st, e) == [st EXCEPT !.trace = Append(@, e)]

\* builder.ts:430: this.auditHandler(pathwayStr, data)
AuditCall(st) ==
    [ev |-> "audit", n |-> 0, src |-> "-", pathway |-> st.pathway, event |-> st.eventId]

-----------------------------------------------------------------------------
(* PathwaysBuilder.process, builder.ts:392-533 *)

\* a loop that emits `before` at the top of every iteration
InvokeHandlerEmittingBefore(st) ==
    [Log(Log(st, Ev("before", 0, "-")), Ev("handler", st.retryCount + 1, handlers[st.pathway]))
        EXCEPT !.pc = "awaitHandler"]

\* a loop that calls the audit handler at the top of every iteration but the first
InvokeHandlerAuditingRetries(st) ==
    LET s1 == IF auditHandler /\ st.retryCount > 0 THEN Log(st, AuditCall(st)) ELSE st
    IN  [Log(s1, Ev("handler", st.retryCount + 1, handlers[st.pathway]))
            EXCEPT !.pc = "awaitHandler"]

\* builder.ts:446-454: the handler is invoked for attempt retryCount + 1 and awaited
InvokeHandler(st) ==
    [Log(st, Ev("handler", st.retryCount + 1, handlers[st.pathway])) EXCEPT !.pc = "awaitHandler"]

\* builder.ts:463, 518, 531: setProcessed is called and awaited
CallSetProcessed(st, nextPc) ==
    [Log(st, Ev("setProcessed", 0, "-")) EXCEPT !.pc = nextPc]

\* a backoff that sleeps the same delay before every retry
NextDelayConstant(retryDelayMs, retryCount) == retryDelayMs

\* builder.ts:495
NextDelay(retryDelayMs, retryCount) == retryDelayMs * retryCount

\* a retry budget that the dispatches in flight share
ShouldRetrySharedCounter(retryCount, max) ==
    calls["c1"].retryCount + calls["c2"].retryCount < max

\* a retry loop that is off by one: it retries once more than maxRetries
ShouldRetryOffByOne(retryCount, max) == retryCount <= max

\* builder.ts:493
ShouldRetry(retryCount, max) == retryCount < max

\* builder.ts:483: this.errorObservers[pathway].next({ event, error }); chan is
\* the key whose error channel receives the emission
ErrorEmission(st, err) ==
    [ev |-> "error", n |-> err.n, src |-> err.src, chan |-> st.pathway, event |-> st.eventId]

\* builder.ts:486-490: this.globalErrorSubject.next({ pathway, event, error })
GlobalErrorEmission(st, err) ==
    [ev |-> "globalError", n |-> err.n, src |-> err.src, pathway |-> st.pathway,
     event |-> st.eventId]

\* a catch block that reports to the pathway's own channel only
CatchBlockWithoutGlobal(st, err) ==
    LET e1 == Log(st, ErrorEmission(st, err))
    IN  IF ShouldRetry(st.retryCount, st.maxRetries)
        THEN [Log([e1 EXCEPT !.retryCount = @ + 1],
                  Ev("sleep", NextDelay(st.retryDelayMs, st.retryCount + 1), "-"))
                EXCEPT !.pc = "sleeping"]
        ELSE [CallSetProcessed(e1, "awaitSetProcessedExhausted") EXCEPT !.error = err]

\* a catch block that gives up without marking the event processed
CatchBlockWithoutMark(st, err) ==
    LET e1 == Log(st, ErrorEmission(st, err))
        e2 == Log(e1, GlobalErrorEmission(st, err))
    IN  IF ShouldRetry(st.retryCount, st.maxRetries)
        THEN [Log([e2 EXCEPT !.retryCount = @ + 1],
                  Ev("sleep", NextDelay(st.retryDelayMs, st.retryCount + 1), "-"))
                EXCEPT !.pc = "sleeping"]
        ELSE [e2 EXCEPT !.pc = "rejected", !.thrown = err, !.error = err]

\* builder.ts:471-520: the catch block of the retry loop, entered with the
\* error thrown by the handler or by anything else inside the try block
CatchBlock(st, err) ==
    LET e1 == Log(st, ErrorEmission(st, err))
        e2 == Log(e1, GlobalErrorEmission(st, err))
    IN  IF ShouldRetry(st.retryCount, st.maxRetries)
        THEN [Log([e2 EXCEPT !.retryCount = @ + 1],
                  Ev("sleep", NextDelay(st.retryDelayMs, st.retryCount + 1), "-"))
                EXCEPT !.pc = "sleeping"]
        ELSE [CallSetProcessed(e2, "awaitSetProcessedExhausted") EXCEPT !.error = err]

\* a loop entry that takes the defaults for every falsy value, 0 included
EnterRetryLoopFalsyDefaults(st, pathway) ==
    InvokeHandler(Log([st EXCEPT !.retryCount = 0,
                                 !.maxRetries = IF maxRetries[pathway] \in {None, Some(0)}
                                                THEN DEFAULT_MAX_RETRIES
                                                ELSE Coalesce(maxRetries[pathway], 0),
                                 !.retryDelayMs = IF retryDelays[pathway] \in {None, Some(0)}
                                                  THEN DEFAULT_RETRY_DELAY_MS
                                                  ELSE Coalesce(retryDelays[pathway], 0)],
                      Ev("before", 0, "-")))

\* builder.ts:433-442 then the first pass through 444-454
EnterRetryLoop(st, pathway) ==
    InvokeHandler(Log([st EXCEPT !.retryCount = 0,
                                 !.maxRetries = Coalesce(maxRetries[pathway], DEFAULT_MAX_RETRIES),
                                 !.retryDelayMs = Coalesce(retryDelays[pathway], DEFAULT_RETRY_DELAY_MS)],
                      Ev("before", 0, "-")))

\* a pass-through that emits `after` only
PassThroughWithoutBefore(st) ==
    CallSetProcessed(Log(st, Ev("after", 0, "-")), "awaitSetProcessedNoHandler")

\* builder.ts:522-532
PassThrough(st) ==
    CallSetProcessed(Log(Log(st, Ev("before", 0, "-")), Ev("after", 0, "-")),
                     "awaitSetProcessedNoHandler")

Reject(st, err) == [st EXCEPT !.pc = "rejected", !.thrown = err]

\* a process() that does not look the key up
ProcessEntryWithoutNotFoundGate(pathway, data, auditThrows) ==
    LET st == [IdleCall EXCEPT !.pathway = pathway, !.eventId = data.eventId,
                               !.payload = data.payload]
    IN  IF schemas[pathway] # UNDEF /\ ~ValueCheck(schemas[pathway], data.payload)
        THEN Reject(st, ValidationError)
        ELSE IF auditHandler /\ auditThrows
        THEN Reject(Log(st, AuditCall(st)), AuditError)
        ELSE LET st1 == IF auditHandler THEN Log(st, AuditCall(st)) ELSE st
             IN  IF handlers[pathway] # UNDEF
                 THEN EnterRetryLoop(st1, pathway)
                 ELSE PassThrough(st1)

\* a process() that calls the audit handler ahead of the schema check
ProcessEntryAuditFirst(pathway, data, auditThrows) ==
    LET st == [IdleCall EXCEPT !.pathway = pathway, !.eventId = data.eventId,
                               !.payload = data.payload]
    IN  IF pathway \notin pathways THEN Reject(st, NotFoundError)
        ELSE IF auditHandler /\ auditThrows
        THEN Reject(Log(st, AuditCall(st)), AuditError)
        ELSE LET st1 == IF auditHandler THEN Log(st, AuditCall(st)) ELSE st
             IN  IF schemas[pathway] # UNDEF /\ ~ValueCheck(schemas[pathway], data.payload)
                 THEN Reject(st1, ValidationError)
                 ELSE IF handlers[pathway] # UNDEF
                 THEN EnterRetryLoop(st1, pathway)
                 ELSE PassThrough(st1)

\* builder.ts:392-454 / 522-531: process() from its entry to its first await
ProcessEntry(pathway, data, auditThrows) ==
    LET st == [IdleCall EXCEPT !.pathway = pathway, !.eventId = data.eventId,
                               !.payload = data.payload]
    IN  IF pathway \notin pathways THEN Reject(st, NotFoundError)
        ELSE IF schemas[pathway] # UNDEF /\ ~ValueCheck(schemas[pathway], data.payload)
        THEN Reject(st, ValidationError)
        ELSE IF auditHandler /\ auditThrows
        THEN Reject(Log(st, AuditCall(st)), AuditError)
        ELSE LET st1 == IF auditHandler THEN Log(st, AuditCall(st)) ELSE st
             IN  IF handlers[pathway] # UNDEF
                 THEN EnterRetryLoop(st1, pathway)
                 ELSE PassThrough(st1)

\* a success path that forgets to emit `after`
AfterHandlerWithoutAfter(st, ok) ==
    IF ok
    THEN CallSetProcessed(Log(st, Ev("handlerReturned", st.retryCount + 1, "-")),
                          "awaitSetProcessed")
    ELSE CatchBlock(Log(st, Ev("handlerThrew", st.retryCount + 1, "-")),
                    HandlerError(st.retryCount + 1))

\* builder.ts:454-463 / 471: the awaited handler settles
AfterHandler(st, ok) ==
    IF ok
    THEN CallSetProcessed(Log(Log(st, Ev("handlerReturned", st.retryCount + 1, "-")),
                              Ev("after", 0, "-")),
                          "awaitSetProcessed")
    ELSE CatchBlock(Log(st, Ev("handlerThrew", st.retryCount + 1, "-")),
                    HandlerError(st.retryCount + 1))

\* builder.ts:463-470, 518-519, 531: the awaited setProcessed settles
AfterSetProcessed(st, ok) ==
    LET s1 == Log(st, Ev(IF ok THEN "setProcessedReturned" ELSE "setProcessedThrew", 0, "-"))
    IN  CASE st.pc = "awaitSetProcessed" ->
                IF ok THEN [s1 EXCEPT !.pc = "resolved"] ELSE CatchBlock(s1, StoreError)
          [] st.pc = "awaitSetProcessedExhausted" ->
                IF ok THEN Reject(s1, s1.error) ELSE Reject(s1, StoreError)
          [] st.pc = "awaitSetProcessedNoHandler" ->
                IF ok THEN [s1 EXCEPT !.pc = "resolved"] ELSE Reject(s1, StoreError)

Events == [eventId : EventIds, payload : IF scenario = "dispatch" THEN Payloads ELSE {"p1"}]

\* The environment of each scenario: the process calls it makes, the flow types
\* it registers, and whether the state store and the audit handler may throw.
EnvCalls == IF scenario \in {"redelivery", "reentrant"} THEN {"c1", "c2"} ELSE {"c1"}
EnvFlowTypes == IF scenario = "subscribe" THEN {"f1", "f2"} ELSE {"f1"}
EnvHandlerFns == IF scenario \in {"redelivery", "resubscribe"} THEN {"h1", "h2"} ELSE {"h1"}
StoreOutcomes == IF scenario \in {"redelivery", "subscribe", "reentrant", "waiting"} THEN {TRUE} ELSE BOOLEAN
AuditOutcomes == IF scenario = "dispatch" THEN BOOLEAN ELSE {FALSE}

\* what the registry held for the key, and the state store for the event, when
\* process() was entered
Seen(pathway, eventId) ==
    [registered |-> pathway \in pathways, handler |-> handlers[pathway],
     schema |-> schemas[pathway], maxRetries |-> maxRetries[pathway],
     retryDelayMs |-> retryDelays[pathway], audit |-> auditHandler,
     processed |-> eventId \in pathwayState, auditThrows |-> FALSE]

\* The subscribe(...) and onError(...) calls: whether the call attached, to
\* which key and with which type, whether the key was registered again since
\* (stale), and the emissions its handler received
SubIds == {"x1", "x2"}
NoSubscription ==
    [state |-> "none", path |-> UNDEF, type |-> UNDEF, stale |-> FALSE, received |-> <<>>]

\* the Subject of a key that emissions of one kind go to
SubjectOf(kind, path) ==
    CASE kind = "before" -> beforeObservable[path]
      [] kind = "after" -> afterObservers[path]
      [] OTHER -> errorObservers[path]

\* the lifecycle emissions a step of a process call made: builder.ts:442, 462,
\* 483, 527, 530
Emitted(old, new) ==
    SelectSeq(SubSeq(new.trace, Len(old.trace) + 1, Len(new.trace)),
              LAMBDA e : e.ev \in {"before", "after", "error"})

\* Subject.next: every subscription attached at that moment receives the emission
Deliveries(x, path, eventId, ems) ==
    LET mine == SelectSeq(ems, LAMBDA e : x \in SubjectOf(e.ev, path))
    IN  [i \in 1..Len(mine) |-> [ev |-> mine[i].ev, pathway |-> path, event |-> eventId]]

Notify(old, new) ==
    [x \in SubIds |->
        [subscriptions[x] EXCEPT !.received =
            @ \o Deliveries(x, new.pathway, new.eventId, Emitted(old, new))]]

Process(c) ==
    /\ calls[c].pc = "idle"
    /\ \E pathway \in Keys, data \in Events, auditThrows \in AuditOutcomes :
          /\ auditThrows => (auditHandler /\ pathway \in pathways)
          /\ calls' = [calls EXCEPT ![c] =
                [ProcessEntry(pathway, data, auditThrows)
                    EXCEPT !.seen = [Seen(pathway, data.eventId)
                                        EXCEPT !.auditThrows = auditThrows]]]
    /\ subscriptions' = Notify(calls[c], calls'[c])
    /\ UNCHANGED <<registry, pathwayState, writes, now, ticks, wrappers, subjects, sessionTtl, stateStore, scenario, handleOutcome>>

HandlerSettles(c) ==
    /\ calls[c].pc = "awaitHandler"
    /\ \E ok \in BOOLEAN : calls' = [calls EXCEPT ![c] = AfterHandler(@, ok)]
    /\ subscriptions' = Notify(calls[c], calls'[c])
    /\ UNCHANGED <<registry, pathwayState, writes, now, ticks, wrappers, subjects, sessionTtl, stateStore, scenario, handleOutcome>>

SetProcessedSettles(c) ==
    /\ calls[c].pc \in {"awaitSetProcessed", "awaitSetProcessedExhausted",
                        "awaitSetProcessedNoHandler"}
    /\ \E ok \in StoreOutcomes :
          /\ calls' = [calls EXCEPT ![c] = AfterSetProcessed(@, ok)]
          /\ pathwayState' = IF ok THEN pathwayState \cup {calls[c].eventId}
                             ELSE pathwayState
    /\ subscriptions' = Notify(calls[c], calls'[c])
    /\ UNCHANGED <<registry, writes, now, ticks, wrappers, subjects, sessionTtl, stateStore, scenario, handleOutcome>>

\* builder.ts:506-507: the retry timer fires and the loop continues
RetryTimerFires(c) ==
    /\ calls[c].pc = "sleeping"
    /\ calls' = [calls EXCEPT ![c] = InvokeHandler(@)]
    /\ subscriptions' = Notify(calls[c], calls'[c])
    /\ UNCHANGED <<registry, pathwayState, writes, now, ticks, wrappers, subjects, sessionTtl, stateStore, scenario, handleOutcome>>

-----------------------------------------------------------------------------
(* PathwaysBuilder.write / writeBatch, builder.ts:757-1007, and the          *)
(* confirmation wait, builder.ts:1020-1063                                   *)

MetaKeys == {"audit/user-id", "audit/on-behalf-of", "audit/mode", "note"}
\* metadata ? { ...metadata } : {}
NoMetadata == [k \in MetaKeys |-> UNDEF]

NoOptions == [fireAndForget |-> None, sessionId |-> UNDEF, auditMode |-> UNDEF]

TransportError == [src |-> "transport", n |-> 0]
TimeoutError == [src |-> "timeout", n |-> 0]
NotWritableError == [src |-> "notWritable", n |-> 0]
ResolverError == [src |-> "resolver", n |-> 0]
TypeError == [src |-> "typeError", n |-> 0]

IdleWrite ==
    [pc |-> "idle", kind |-> UNDEF, path |-> UNDEF, data |-> <<>>,
     metadata |-> NoMetadata, callerMetadata |-> NoMetadata, options |-> NoOptions,
     userId |-> UNDEF, sent |-> NoMetadata, writer |-> UNDEF, writerCalls |-> 0,
     schemaChecks |-> 0, resolverCalls |-> 0, asked |-> <<>>, eventIds |-> <<>>, waits |-> <<>>, thrown |-> NoError,
     answered |-> <<>>,
     seen |-> [writer |-> UNDEF, batchWriter |-> UNDEF, file |-> FALSE]]

\* an annotation that leaves the audit keys the caller wrote as they are
AuditMetadataKeepingCaller(finalMetadata, userId, auditMode) ==
    LET keep(k, v) == IF finalMetadata[k] # UNDEF THEN finalMetadata[k] ELSE v
    IN  IF userId = UNDEF THEN finalMetadata
        ELSE IF auditMode = "system"
        THEN [finalMetadata EXCEPT !["audit/user-id"] = keep("audit/user-id", "system"),
                                   !["audit/on-behalf-of"] = keep("audit/on-behalf-of", userId),
                                   !["audit/mode"] = keep("audit/mode", "system")]
        ELSE [finalMetadata EXCEPT !["audit/user-id"] = userId,
                                   !["audit/mode"] = "user"]

\* an annotation that names the user as on-behalf-of in both modes
AuditMetadataAlwaysOnBehalf(finalMetadata, userId, auditMode) ==
    IF userId = UNDEF THEN finalMetadata
    ELSE IF auditMode = "system"
    THEN [finalMetadata EXCEPT !["audit/user-id"] = "system",
                               !["audit/on-behalf-of"] = userId,
                               !["audit/mode"] = "system"]
    ELSE [finalMetadata EXCEPT !["audit/user-id"] = userId,
                               !["audit/on-behalf-of"] = userId,
                               !["audit/mode"] = "user"]

\* builder.ts:834-853 / 963-982: the audit annotation of the metadata copy
AuditMetadata(finalMetadata, userId, auditMode) ==
    IF userId = UNDEF THEN finalMetadata
    ELSE IF auditMode = "system"
    THEN [finalMetadata EXCEPT !["audit/user-id"] = "system",
                               !["audit/on-behalf-of"] = userId,
                               !["audit/mode"] = "system"]
    ELSE [finalMetadata EXCEPT !["audit/user-id"] = userId,
                               !["audit/mode"] = "user"]

\* a batch check that looks at the first element only
DataValidFirstOnly(kind, schema, data) == ValueCheck(schema, data[1])

\* builder.ts:787 / 916: Value.Check(schema, data), Value.Check(Type.Array(schema), data)
DataValid(kind, schema, data) ==
    IF kind = "write" THEN ValueCheck(schema, data[1])
    ELSE \A i \in 1..Len(data) : ValueCheck(schema, data[i])

\* an object of the caller that the code writes to directly: it ends up with
\* what was written
CallerObjectAliased(object, written) == written

\* builder.ts:797 / 926 (`{ ...metadata }`), session-pathway.ts (`{ ...options }`):
\* the code writes to a copy, and the caller's object stays as it was
CallerObject(object, written) == object

\* builder.ts:834-862 / 963-985: the copy of the metadata is annotated, the
\* writer is picked and invoked with it
CallWriter(st) ==
    LET fn == IF st.kind = "writeBatch" THEN batchWriters[st.path] ELSE writers[st.path]
        finalMetadata == AuditMetadata(st.metadata, st.userId,
                                       Coalesce({st.options.auditMode} \ {UNDEF}, "user"))
        s1 == [st EXCEPT !.callerMetadata = CallerObject(@, finalMetadata)]
    IN  IF fn = UNDEF THEN [s1 EXCEPT !.pc = "rejected", !.thrown = TypeError]
        ELSE [s1 EXCEPT !.pc = "awaitWriter",
                        !.writer = fn,
                        !.writerCalls = @ + 1,
                        !.sent = finalMetadata]

\* builder.ts:825-832 / 954-961: the registry-wide resolver is asked when the
\* session gave no user id
AfterSessionResolver(st) ==
    IF userIdResolver # UNDEF /\ st.userId = UNDEF
    THEN [st EXCEPT !.pc = "awaitUserResolver", !.resolverCalls = @ + 1,
                    !.asked = Append(@, [scope |-> "global", fn |-> userIdResolver,
                                         outcome |-> "pending"])]
    ELSE CallWriter(st)

\* a lookup that hands out the resolver of session s1 to every session
SessionLookupShared(sessionId) ==
    IF sessionId = UNDEF THEN UNDEF ELSE sessionUserResolvers["s1"]

\* builder.ts:801-803, 378-384: the resolver registered for the session id of
\* the options, if the options carry one
SessionLookup(sessionId) ==
    IF sessionId \in {UNDEF, ""} THEN UNDEF ELSE sessionUserResolvers[sessionId]

\* a write path without the not-writable gate
WriteEntryWithoutWritableGate(kind, path, data, metadata, options) ==
    LET st == [IdleWrite EXCEPT !.kind = kind, !.path = path, !.data = data,
                                !.metadata = metadata, !.callerMetadata = metadata,
                                !.options = options]
    IN  IF path \notin pathways THEN [st EXCEPT !.pc = "rejected", !.thrown = NotFoundError]
        ELSE IF ~DataValid(kind, schemas[path], data)
        THEN [st EXCEPT !.pc = "rejected", !.thrown = ValidationError, !.schemaChecks = 1]
        ELSE AfterSessionResolver([st EXCEPT !.schemaChecks = 1])

\* builder.ts:757-805 / 886-934: write() and writeBatch() from entry to the first await
WriteEntry(kind, path, data, metadata, options) ==
    LET st == [IdleWrite EXCEPT !.kind = kind, !.path = path, !.data = data,
                                !.metadata = metadata, !.callerMetadata = metadata,
                                !.options = options]
    IN  IF path \notin pathways THEN [st EXCEPT !.pc = "rejected", !.thrown = NotFoundError]
        ELSE IF writable[path] # Some(TRUE)
        THEN [st EXCEPT !.pc = "rejected", !.thrown = NotWritableError]
        ELSE IF ~DataValid(kind, schemas[path], data)
        THEN [st EXCEPT !.pc = "rejected", !.thrown = ValidationError, !.schemaChecks = 1]
        ELSE LET st1 == [st EXCEPT !.schemaChecks = 1]
             IN  IF SessionLookup(options.sessionId) # UNDEF
                 THEN [st1 EXCEPT !.pc = "awaitSessionResolver", !.resolverCalls = @ + 1,
                          !.asked = Append(@, [scope |-> "session",
                                                fn |-> SessionLookup(options.sessionId),
                                                outcome |-> "pending"])]
                 ELSE AfterSessionResolver(st1)

\* builder.ts:1022: the timeout a confirmation wait applies
WaitTimeout(eventId) == Coalesce(timeouts[eventId], pathwayTimeoutMs)

\* builder.ts:1020-1031: a wait from its entry to its first isProcessed call
StartWait(eventId) ==
    [eventId |-> eventId, pc |-> "polling", startTime |-> now,
     timeoutMs |-> WaitTimeout(eventId), attempts |-> 0, wakeAt |-> 0, answers |-> <<>>]

\* a timeout that already applies when exactly the timeout has elapsed
TimedOutInclusive(elapsedTime, timeoutMs) == elapsedTime >= timeoutMs

\* builder.ts:1035
TimedOut(elapsedTime, timeoutMs) == elapsedTime > timeoutMs

\* builder.ts:1031-1056: isProcessed has answered
AfterPoll(wt, answer) ==
    LET w1 == [wt EXCEPT !.answers = Append(@, answer)]
    IN  IF answer THEN [w1 EXCEPT !.pc = "done"]
        ELSE IF TimedOut(now - wt.startTime, wt.timeoutMs)
        THEN [w1 EXCEPT !.attempts = @ + 1, !.pc = "timedOut"]
        ELSE [w1 EXCEPT !.attempts = @ + 1, !.pc = "sleeping",
                        !.wakeAt = now + POLL_INTERVAL_MS]

\* a write path that waits for confirmation whatever the options say
AfterWriterAlwaysWaits(st, ok, ids) ==
    IF ~ok THEN [st EXCEPT !.pc = "rejected", !.thrown = TransportError]
    ELSE IF ids = <<>>
    THEN [st EXCEPT !.pc = "resolved", !.eventIds = ids]
    ELSE [st EXCEPT !.pc = "waiting", !.eventIds = ids,
                    !.waits = [i \in 1..Len(ids) |-> StartWait(ids[i])]]

\* a write path that invokes the writer once more when it rejects
AfterWriterRetrying(st, ok, ids) ==
    IF ~ok /\ st.writerCalls < 2 THEN [st EXCEPT !.writerCalls = @ + 1]
    ELSE IF ~ok THEN [st EXCEPT !.pc = "rejected", !.thrown = TransportError]
    ELSE IF st.options.fireAndForget = Some(TRUE) \/ ids = <<>>
    THEN [st EXCEPT !.pc = "resolved", !.eventIds = ids]
    ELSE [st EXCEPT !.pc = "waiting", !.eventIds = ids,
                    !.waits = [i \in 1..Len(ids) |-> StartWait(ids[i])]]

\* builder.ts:870-883 / 993-1006: what follows the writer's answer
AfterWriter(st, ok, ids) ==
    IF ~ok THEN [st EXCEPT !.pc = "rejected", !.thrown = TransportError]
    ELSE IF st.options.fireAndForget = Some(TRUE) \/ ids = <<>>
    THEN [st EXCEPT !.pc = "resolved", !.eventIds = ids]
    ELSE [st EXCEPT !.pc = "waiting", !.eventIds = ids,
                    !.waits = [i \in 1..Len(ids) |-> StartWait(ids[i])]]

\* a write path that settles with the first wait to settle
SettleAllOnFirst(st) ==
    IF st.pc # "waiting" THEN st
    ELSE IF \E i \in 1..Len(st.waits) : st.waits[i].pc = "timedOut"
    THEN [st EXCEPT !.pc = "rejected", !.thrown = TimeoutError]
    ELSE IF \E i \in 1..Len(st.waits) : st.waits[i].pc = "done"
    THEN [st EXCEPT !.pc = "resolved"]
    ELSE st

\* Promise.all over the waits (builder.ts:876-880): the first rejection rejects
\* the write, the last fulfilment resolves it
SettleAll(st) ==
    IF st.pc # "waiting" THEN st
    ELSE IF \E i \in 1..Len(st.waits) : st.waits[i].pc = "timedOut"
    THEN [st EXCEPT !.pc = "rejected", !.thrown = TimeoutError]
    ELSE IF \A i \in 1..Len(st.waits) : st.waits[i].pc = "done"
    THEN [st EXCEPT !.pc = "resolved"]
    ELSE st

\* The environment of the write path: the payloads written, the options given,
\* and the ids the transport answers with (one id for a webhook, a list for a
\* batch or a file).
EnvWriteData(kind) ==
    IF scenario = "waiting"
    THEN (IF kind = "write" THEN {<<"p1">>} ELSE {<<"p1", "p1">>})
    ELSE IF kind = "write" THEN {<<"p1">>, <<"p2">>} ELSE {<<"p1", "p1">>, <<"p1", "p2">>}
EnvOptions ==
    CASE scenario = "audit" ->
            [fireAndForget : {None, Some(TRUE)}, sessionId : {UNDEF, "s1"},
             auditMode : {UNDEF, "user", "system"}]
      [] scenario = "sessions" ->
            [fireAndForget : {Some(TRUE)}, sessionId : {UNDEF, "s1", "s2"}, auditMode : {UNDEF}]
      [] scenario = "frame" ->
            [fireAndForget : {Some(TRUE)}, sessionId : {UNDEF, "s1"}, auditMode : {UNDEF}]
      [] scenario = "waiting" ->
            [fireAndForget : {None}, sessionId : {UNDEF}, auditMode : {UNDEF}]
      [] OTHER -> [fireAndForget : {None, Some(TRUE)}, sessionId : {UNDEF}, auditMode : {UNDEF}]
\* metadata in which the caller already wrote audit keys of its own
CallerAudit == [k \in MetaKeys |-> IF k = "note" THEN "n1" ELSE "caller"]
EnvMetadata == IF scenario \in {"audit", "frame"} THEN {NoMetadata, CallerAudit} ELSE {NoMetadata}
EnvWrites == IF scenario = "sessions" THEN {"w1", "w2"} ELSE {"w1"}
\* the resolvers the environment installs: a resolver is named by the user id
\* it resolves to; each session installs its own
EnvUserResolvers == {"u0"}
EnvSessionResolvers ==
    IF scenario = "sessions" THEN {<<"s1", "u1">>, <<"s2", "u2">>} ELSE {<<"s1", "u1">>}
ResolverOutcomes == BOOLEAN
\* the resolver whose promise the write is awaiting
LastAsked(st) == st.asked[Len(st.asked)]
WriterAnswers(fn) ==
    IF fn = "webhook" THEN {<<"e1">>} ELSE {<<>>, <<"e1">>, <<"e1", "e2">>}
TimeSteps ==
    IF scenario = "store" THEN {500, DEFAULT_TTL_MS}
    ELSE {POLL_INTERVAL_MS, DEFAULT_PATHWAY_TIMEOUT_MS}

\* what the registry held for the key when write() / writeBatch() was entered
SeenByWrite(path) ==
    [writer |-> writers[path], batchWriter |-> batchWriters[path],
     file |-> path \in filePathways]

Write(w) ==
    /\ writes[w].pc = "idle"
    /\ \E kind \in {"write", "writeBatch"}, path \in Keys, options \in EnvOptions,
          metadata \in EnvMetadata :
          \E data \in EnvWriteData(kind) :
             writes' = [writes EXCEPT ![w] =
                          [WriteEntry(kind, path, data, metadata, options)
                              EXCEPT !.seen = SeenByWrite(path)]]
    /\ UNCHANGED <<registry, pathwayState, calls, now, ticks, wrappers, subjects, subscriptions, sessionTtl, stateStore, scenario, handleOutcome>>

\* a write path that swallows the failure of the registry-wide resolver too
AfterUserResolverSwallowing(st, ok) ==
    IF ok
    THEN CallWriter([st EXCEPT !.userId = LastAsked(st).fn,
                               !.asked[Len(st.asked)].outcome = "returned"])
    ELSE CallWriter([st EXCEPT !.asked[Len(st.asked)].outcome = "threw"])

\* builder.ts:830: `userId = await this.userIdResolver()` outside any try block
AfterUserResolver(st, ok) ==
    IF ok
    THEN CallWriter([st EXCEPT !.userId = LastAsked(st).fn,
                               !.asked[Len(st.asked)].outcome = "returned"])
    ELSE [st EXCEPT !.pc = "rejected", !.thrown = ResolverError,
                    !.asked[Len(st.asked)].outcome = "threw"]

\* builder.ts:805-822: the session resolver settles; its failure is swallowed
SessionResolverSettles(w) ==
    /\ writes[w].pc = "awaitSessionResolver"
    /\ \E ok \in ResolverOutcomes :
          writes' = [writes EXCEPT ![w] =
                        AfterSessionResolver(
                            [@ EXCEPT !.userId = IF ok THEN LastAsked(writes[w]).fn ELSE UNDEF,
                                      !.asked[Len(writes[w].asked)].outcome =
                                          IF ok THEN "returned" ELSE "threw"])]
    /\ UNCHANGED <<registry, pathwayState, calls, now, ticks, wrappers, subjects, subscriptions, sessionTtl, stateStore, scenario, handleOutcome>>

\* builder.ts:830: the registry-wide resolver settles; its failure rejects the write
UserResolverSettles(w) ==
    /\ writes[w].pc = "awaitUserResolver"
    /\ \E ok \in ResolverOutcomes :
          writes' = [writes EXCEPT ![w] = AfterUserResolver(@, ok)]
    /\ UNCHANGED <<registry, pathwayState, calls, now, ticks, wrappers, subjects, subscriptions, sessionTtl, stateStore, scenario, handleOutcome>>

\* builder.ts:858-883: the writer settles; the waits start in the same turn
WriterSettles(w) ==
    /\ writes[w].pc = "awaitWriter"
    /\ \E ok \in BOOLEAN, ids \in WriterAnswers(writes[w].writer) :
          writes' = [writes EXCEPT ![w] =
                        [AfterWriter(@, ok, ids) EXCEPT !.answered = Append(@, ok)]]
    /\ UNCHANGED <<registry, pathwayState, calls, now, ticks, wrappers, subjects, subscriptions, sessionTtl, stateStore, scenario, handleOutcome>>

\* internal-pathway.state.ts:40-44, then builder.ts:1031-1056
PollSettles(w, i) ==
    /\ i \in 1..Len(writes[w].waits)
    /\ writes[w].waits[i].pc = "polling"
    /\ writes' = [writes EXCEPT ![w] =
          SettleAll([@ EXCEPT !.waits[i] =
                        AfterPoll(@, writes[w].waits[i].eventId \in pathwayState)])]
    /\ UNCHANGED <<registry, pathwayState, calls, now, ticks, wrappers, subjects, subscriptions, sessionTtl, stateStore, scenario, handleOutcome>>

\* builder.ts:1055-1056, 1031: the poll timer fires and isProcessed is called again
PollTimerFires(w, i) ==
    /\ i \in 1..Len(writes[w].waits)
    /\ writes[w].waits[i].pc = "sleeping"
    /\ now >= writes[w].waits[i].wakeAt
    /\ writes' = [writes EXCEPT ![w].waits[i].pc = "polling"]
    /\ UNCHANGED <<registry, pathwayState, calls, now, ticks, wrappers, subjects, subscriptions, sessionTtl, stateStore, scenario, handleOutcome>>

\* builder.ts:1055-1056, 1031: time passes until the poll timer is due, it
\* fires, and isProcessed is called again
PollTimerElapses(w, i) ==
    /\ i \in 1..Len(writes[w].waits)
    /\ writes[w].waits[i].pc = "sleeping"
    /\ now' = IF now < writes[w].waits[i].wakeAt THEN writes[w].waits[i].wakeAt ELSE now
    /\ writes' = [writes EXCEPT ![w].waits[i].pc = "polling"]
    /\ UNCHANGED <<registry, pathwayState, calls, ticks, wrappers, subjects, subscriptions,
                   sessionTtl, stateStore, scenario, handleOutcome>>

\* time passes, up to the moment the next timeout of the session resolver
\* store is due
Tick ==
    /\ ticks > 0
    /\ \E d \in TimeSteps :
          /\ \A t \in timers : now + d <= t.dueAt
          /\ now' = now + d
    /\ ticks' = ticks - 1
    /\ UNCHANGED <<registry, pathwayState, calls, writes, wrappers, subjects, subscriptions, sessionTtl, stateStore, scenario, handleOutcome>>

-----------------------------------------------------------------------------
(* Configuration: register, handle, withAudit *)

\* the contracts the environment registers in each scenario
Contracts ==
    IF scenario = "dispatch"
    THEN [flowType : EnvFlowTypes, eventType : EventTypes, schema : {UNDEF, "S1"},
          writable : {None}, isFilePathway : {None}, timeoutMs : {None},
          maxRetries : {None} \cup {Some(n) : n \in 0..MaxContractRetries},
          retryDelayMs : {None, Some(100)}]
    ELSE IF scenario = "files"
    THEN [flowType : EnvFlowTypes, eventType : EventTypes, schema : {"S1"},
          writable : {None, Some(FALSE)}, isFilePathway : {None, Some(TRUE)},
          timeoutMs : {None, Some(200)}, maxRetries : {None, Some(0)},
          retryDelayMs : {None}]
    ELSE IF scenario \in {"subscribe", "resubscribe"}
    THEN [flowType : EnvFlowTypes, eventType : EventTypes, schema : {UNDEF},
          writable : {None}, isFilePathway : {None}, timeoutMs : {None},
          maxRetries : {Some(MaxContractRetries)}, retryDelayMs : {None}]
    ELSE IF scenario = "redelivery"
    THEN {c \in [flowType : EnvFlowTypes, eventType : EventTypes, schema : {UNDEF},
                 writable : {None}, isFilePathway : {None}, timeoutMs : {None},
                 maxRetries : {Some(0)}, retryDelayMs : {None}] :
             PathwayKey(c.flowType, c.eventType) \notin pathways}
    ELSE IF scenario = "termination"
    THEN {c \in [flowType : EnvFlowTypes, eventType : EventTypes, schema : {UNDEF},
                 writable : {None}, isFilePathway : {None}, timeoutMs : {None},
                 maxRetries : {None} \cup {Some(n) : n \in 0..MaxContractRetries},
                 retryDelayMs : {None}] :
             PathwayKey(c.flowType, c.eventType) \notin pathways}
    ELSE IF scenario = "reentrant"
    THEN {c \in [flowType : EnvFlowTypes, eventType : EventTypes, schema : {UNDEF},
                 writable : {None}, isFilePathway : {None}, timeoutMs : {None},
                 maxRetries : {Some(MaxContractRetries)}, retryDelayMs : {None}] :
             PathwayKey(c.flowType, c.eventType) \notin pathways}
    ELSE {c \in [flowType : EnvFlowTypes, eventType : EventTypes, schema : {"S1"},
                 writable : IF scenario \in {"sessions", "wrapper", "waiting", "frame"} THEN {None}
                            ELSE {None, Some(FALSE)},
                 isFilePathway : {None},
                 timeoutMs : IF scenario = "write" THEN {None, Some(200)} ELSE {None},
                 maxRetries : {Some(0)},
                 retryDelayMs : {None}] :
             PathwayKey(c.flowType, c.eventType) \notin pathways}

\* a registration that keeps the Subject the key already has
KeptSubject(subject) == subject

\* builder.ts:569-571: `new Subject()`: nothing is attached to it
NewSubject(subject) == {}

\* builder.ts:544-616
Register(contract) ==
    LET path == PathwayKey(contract.flowType, contract.eventType)
        w == Coalesce(contract.writable, TRUE)
        file == Coalesce(contract.isFilePathway, FALSE)
    IN  /\ pathways' = pathways \cup {path}
        /\ filePathways' = IF w /\ file THEN filePathways \cup {path} ELSE filePathways
        /\ writers' = IF w THEN [writers EXCEPT ![path] = IF file THEN "file" ELSE "webhook"]
                      ELSE writers
        /\ batchWriters' = IF w /\ ~file THEN [batchWriters EXCEPT ![path] = "batch"]
                           ELSE batchWriters
        /\ timeouts' = IF contract.timeoutMs \notin {None, Some(0)}
                       THEN [timeouts EXCEPT ![path] = contract.timeoutMs] ELSE timeouts
        /\ maxRetries' = IF contract.maxRetries # None
                         THEN [maxRetries EXCEPT ![path] = contract.maxRetries] ELSE maxRetries
        /\ retryDelays' = IF contract.retryDelayMs # None
                          THEN [retryDelays EXCEPT ![path] = contract.retryDelayMs]
                          ELSE retryDelays
        /\ schemas' = [schemas EXCEPT ![path] = contract.schema]
        /\ writable' = [writable EXCEPT ![path] = Some(w)]
        /\ beforeObservable' = [beforeObservable EXCEPT ![path] = NewSubject(@)]
        /\ afterObservers' = [afterObservers EXCEPT ![path] = NewSubject(@)]
        /\ errorObservers' = [errorObservers EXCEPT ![path] = NewSubject(@)]
        /\ subscriptions' = [x \in SubIds |->
               IF subscriptions[x].state = "attached" /\ subscriptions[x].path = path
               THEN [subscriptions[x] EXCEPT !.stale = TRUE] ELSE subscriptions[x]]
        /\ UNCHANGED <<handlers, hooks, pathwayState, calls, writes, now, ticks, wrappers, sessionTtl, stateStore, scenario, handleOutcome>>

\* the handle() calls of the environment: any key and any of its functions
\* where handlers compete, else one handler for each key registered
EnvHandles ==
    IF scenario = "redelivery" THEN Keys \X EnvHandlerFns
    ELSE IF scenario = "resubscribe"
    THEN {h \in Keys \X EnvHandlerFns : h[1] \in pathways}
    ELSE {h \in Keys \X EnvHandlerFns : h[1] \in pathways /\ handlers[h[1]] = UNDEF}

AlreadyHandledError == [src |-> "alreadyHandled", n |-> 0]
NoOutcome == [path |-> UNDEF, handler |-> UNDEF, thrown |-> NoError]

\* a handle() that only refuses unknown keys
HandleErrorUnknownKeyOnly(path) ==
    IF path \notin pathways THEN NotFoundError ELSE NoError

\* builder.ts:648-658: what handle() throws, if anything
HandleError(path) ==
    IF path \notin pathways THEN NotFoundError
    ELSE IF handlers[path] # UNDEF THEN AlreadyHandledError
    ELSE NoError

\* builder.ts:641-664: throws (and changes nothing) for an unknown key or a key
\* that already has a handler
Handle(path, handler) ==
    /\ handlers' = IF HandleError(path) = NoError
                   THEN [handlers EXCEPT ![path] = handler]
                   ELSE handlers
    /\ handleOutcome' = [path |-> path, handler |-> handler, thrown |-> HandleError(path)]
    /\ UNCHANGED <<tables, hooks, pathwayState, calls, writes, now, ticks, wrappers, subjects, subscriptions, sessionTtl, stateStore, scenario>>

\* the channels a subscription of type "all" that listens to `before` only
\* attaches to
ChannelsOfAllAsBefore(type) ==
    IF type = "after" THEN {"after"} ELSE {"before"}

\* builder.ts:688-696: the channels subscribe() attaches the handler to
ChannelsOf(type) ==
    (IF type \in {"before", "all"} THEN {"before"} ELSE {})
       \cup (IF type \in {"after", "all"} THEN {"after"} ELSE {})

SubscribeTypes == {UNDEF, "before", "after", "all"}

\* builder.ts:672-704: throws for an unknown key, else attaches the handler;
\* an omitted type is "before"
Subscribe(x, path, given) ==
    LET type == IF given = UNDEF THEN "before" ELSE given
    IN  /\ subscriptions[x].state = "none"
        /\ IF path \notin pathways
           THEN /\ subscriptions' = [subscriptions EXCEPT ![x] =
                      [NoSubscription EXCEPT !.state = "threw", !.path = path, !.type = type]]
                /\ UNCHANGED subjects
           ELSE /\ subscriptions' = [subscriptions EXCEPT ![x] =
                      [NoSubscription EXCEPT !.state = "attached", !.path = path,
                                             !.type = type]]
                /\ beforeObservable' = IF "before" \in ChannelsOf(type)
                                       THEN [beforeObservable EXCEPT ![path] = @ \cup {x}]
                                       ELSE beforeObservable
                /\ afterObservers' = IF "after" \in ChannelsOf(type)
                                     THEN [afterObservers EXCEPT ![path] = @ \cup {x}]
                                     ELSE afterObservers
                /\ UNCHANGED errorObservers
        /\ UNCHANGED <<registry, pathwayState, calls, writes, now, ticks, wrappers, sessionTtl, stateStore, scenario,
                       handleOutcome>>

\* builder.ts:711-733
OnError(x, path) ==
    /\ subscriptions[x].state = "none"
    /\ IF path \notin pathways
       THEN /\ subscriptions' = [subscriptions EXCEPT ![x] =
                  [NoSubscription EXCEPT !.state = "threw", !.path = path, !.type = "error"]]
            /\ UNCHANGED subjects
       ELSE /\ subscriptions' = [subscriptions EXCEPT ![x] =
                  [NoSubscription EXCEPT !.state = "attached", !.path = path,
                                         !.type = "error"]]
            /\ errorObservers' = [errorObservers EXCEPT ![path] = @ \cup {x}]
            /\ UNCHANGED <<beforeObservable, afterObservers>>
    /\ UNCHANGED <<registry, pathwayState, calls, writes, now, ticks, wrappers, sessionTtl, stateStore, scenario,
                   handleOutcome>>

\* builder.ts:324-328
WithUserResolver(resolver) ==
    /\ userIdResolver' = resolver
    /\ UNCHANGED <<tables, handlers, pathwayTimeoutMs, auditHandler, sessionUserResolvers,
                   pathwayState, calls, writes, now, ticks, wrappers, subjects, subscriptions, sessionTtl, stateStore, scenario, handleOutcome>>

NeverSet == [resolver |-> UNDEF, at |-> 0]

\* builder.ts:146-149: setTimeout(() => this.store.delete(key), ttlMs)
Timeout(key, ttlMs) == [key |-> key, dueAt |-> now + ttlMs]

\* a set() that leaves the timeout of the entry it replaces pending
ClearTimeoutNothing(pending, key) == pending

\* builder.ts:141-144: clearTimeout(existingEntry.timeout)
ClearTimeout(pending, key) ==
    IF sessionTimeouts[key] = None THEN pending
    ELSE pending \ {[key |-> key, dueAt |-> Coalesce(sessionTimeouts[key], 0)]}

\* builder.ts:363-371, 133-148
WithSessionUserResolver(sessionId, resolver) ==
    /\ sessionUserResolvers' = [sessionUserResolvers EXCEPT ![sessionId] = resolver]
    /\ timers' = ClearTimeout(timers, sessionId)
                    \cup {Timeout(sessionId, DEFAULT_SESSION_USER_RESOLVER_TTL_MS)}
    /\ sessionTimeouts' = [sessionTimeouts EXCEPT ![sessionId] =
                              Some(now + DEFAULT_SESSION_USER_RESOLVER_TTL_MS)]
    /\ sessionSets' = [sessionSets EXCEPT ![sessionId] = [resolver |-> resolver, at |-> now]]
    /\ UNCHANGED <<tables, handlers, pathwayTimeoutMs, auditHandler, userIdResolver,
                   pathwayState, calls, writes, now, ticks, wrappers, subjects, subscriptions,
                   stateStore, scenario, handleOutcome>>

\* builder.ts:147-149: the timeout of an entry is due: the entry under its key
\* is deleted
SessionTimerFires(t) ==
    /\ t \in timers
    /\ \A u \in timers : t.dueAt <= u.dueAt
    /\ ticks > 0
    /\ ticks' = ticks - 1
    /\ now' = IF now < t.dueAt THEN t.dueAt ELSE now
    /\ timers' = timers \ {t}
    /\ sessionUserResolvers' = [sessionUserResolvers EXCEPT ![t.key] = UNDEF]
    /\ sessionTimeouts' = [sessionTimeouts EXCEPT ![t.key] = None]
    /\ UNCHANGED <<tables, handlers, pathwayTimeoutMs, auditHandler, userIdResolver,
                   pathwayState, calls, writes, wrappers, subjects, subscriptions, sessionSets,
                   stateStore, scenario, handleOutcome>>

\* builder.ts:378-384, 124-130
GetSessionUserResolver(sessionId) == sessionUserResolvers[sessionId]

\* builder.ts:313-317
WithAudit ==
    /\ auditHandler' = TRUE
    /\ UNCHANGED <<tables, handlers, pathwayTimeoutMs, userIdResolver, sessionUserResolvers,
                   pathwayState, calls, writes, now, ticks, wrappers, subjects, subscriptions, sessionTtl, stateStore, scenario, handleOutcome>>

-----------------------------------------------------------------------------
(* SessionPathwayBuilder, session-pathway.ts *)

SessionBuilders == {"sb1", "sb2"}
\* the ids generateUUID() may return
UUIDs == {"g1"}
\* every string used as a session id: "" is a string too
SessionKeys == SessionIds \cup UUIDs \cup {""}

\* a wrapper that was not constructed yet; `passed` is the history of its
\* write calls: the write slot used and the options the caller gave
NoSessionBuilder == [sessionId |-> UNDEF, given |-> UNDEF, passed |-> <<>>]

\* session-pathway.ts constructor: `sessionId ?? generateUUID()`
NewSessionPathwayBuilder(b, sessionId) ==
    /\ sessionBuilders[b].sessionId = UNDEF
    /\ \E uuid \in UUIDs :
          sessionBuilders' = [sessionBuilders EXCEPT ![b] =
              [sessionId |-> IF sessionId # UNDEF THEN sessionId ELSE uuid,
               given |-> sessionId, passed |-> <<>>]]
    /\ UNCHANGED <<registry, pathwayState, calls, writes, now, ticks, secretKey, routed,
                   subjects, subscriptions, sessionTtl, stateStore, scenario, handleOutcome>>

\* getSessionId()
GetSessionId(b) == sessionBuilders[b].sessionId

\* SessionPathwayBuilder.withUserResolver: registers under the wrapper's id
SessionWithUserResolver(b, resolver) ==
    /\ sessionBuilders[b].sessionId # UNDEF
    /\ WithSessionUserResolver(sessionBuilders[b].sessionId, resolver)

\* options that always carry the wrapper's id
FinalOptionsAlwaysOwn(options, sessionId) ==
    [options EXCEPT !.sessionId = sessionId]

\* `finalOptions = options ? { ...options } : {}` and
\* `finalOptions.sessionId = options?.sessionId ?? this.sessionId`
FinalOptions(options, sessionId) ==
    [options EXCEPT !.sessionId = IF @ # UNDEF THEN @ ELSE sessionId]

\* the options callers give to a wrapper's write
EnvSessionOptions ==
    [fireAndForget : {Some(TRUE)}, sessionId : {UNDEF, "", "s1", "s2"},
     auditMode : {UNDEF, "system"}]

\* SessionPathwayBuilder.write: the underlying write() runs to its first await
\* in the same turn
SessionWrite(b, w) ==
    /\ sessionBuilders[b].sessionId # UNDEF
    /\ writes[w].pc = "idle"
    /\ \E path \in Keys, options \in EnvSessionOptions, metadata \in EnvMetadata :
          \E data \in EnvWriteData("write") :
             /\ writes' = [writes EXCEPT ![w] =
                   [WriteEntry("write", path, data, metadata,
                               FinalOptions(options, sessionBuilders[b].sessionId))
                       EXCEPT !.seen = SeenByWrite(path)]]
             /\ sessionBuilders' = [sessionBuilders EXCEPT ![b].passed =
                   Append(@, [w |-> w, path |-> path, data |-> data,
                              metadata |-> metadata, options |-> options,
                              callerOptions |->
                                 CallerObject(options,
                                              FinalOptions(options,
                                                           sessionBuilders[b].sessionId))])]
    /\ UNCHANGED <<registry, pathwayState, calls, now, ticks, secretKey, routed,
                   subjects, subscriptions, sessionTtl, stateStore, scenario, handleOutcome>>

-----------------------------------------------------------------------------
(* PathwayRouter, router/index.ts *)

RouterCalls == {"r1"}

\* the errors processEvent throws: what went wrong, for which key, and the
\* error of process() it wraps
RouterError(src, key, cause) == [src |-> src, key |-> key, cause |-> cause]
NoRouterError == RouterError("none", UNDEF, NoError)
InvalidSecretError == RouterError("invalidSecret", UNDEF, NoError)
PathwayNotFoundError(key) == RouterError("notFound", key, NoError)
ProcessingFailedError(key, cause) == RouterError("processingFailed", key, cause)

\* the events the router is handed: a legacy event names its flow type in
\* `aggregator`
LegacyEvents ==
    [flowType : FlowTypes \cup {UNDEF}, eventType : EventTypes,
     aggregator : {UNDEF, "", "f1", "f2"}, eventId : {"e1"}, payload : Payloads]
NoEvent ==
    [flowType |-> UNDEF, eventType |-> UNDEF, aggregator |-> UNDEF, eventId |-> UNDEF,
     payload |-> UNDEF]
\* the secrets callers provide: none, an empty one, the right one, a wrong one
ProvidedSecrets == {UNDEF, "", "k1", "k2"}

\* a processEvent call: `lookups` counts pathways.get calls, `processCalls`
\* the process calls, `passed` is what process was called with, `call` the
\* process call awaited, `registered` whether the key was registered at entry
IdleRouted ==
    [pc |-> "idle", event |-> NoEvent, providedSecret |-> UNDEF, pathwayKey |-> UNDEF,
     lookups |-> 0, processCalls |-> 0,
     passed |-> [pathway |-> UNDEF, event |-> NoEvent], call |-> UNDEF,
     registered |-> FALSE, thrown |-> NoRouterError, message |-> UNDEF]

\* an event whose aggregator is never looked at
CompatibleEventIgnoringAggregator(event) == event

\* router/index.ts:143-146: { ...event, ...(event.aggregator ? { flowType: event.aggregator } : {}) }
CompatibleEvent(event) ==
    [event EXCEPT !.flowType = IF event.aggregator \notin {UNDEF, ""}
                               THEN event.aggregator ELSE @]

\* router/index.ts:137: !providedSecret || providedSecret !== this.secretKey
SecretRefused(providedSecret) ==
    providedSecret \in {UNDEF, ""} \/ providedSecret # secretKey

\* a router that only refuses a missing secret
RouterEntryMissingOnly(event, providedSecret) ==
    LET st == [IdleRouted EXCEPT !.event = event, !.providedSecret = providedSecret]
        compatibleEvent == CompatibleEvent(event)
        pathwayKey == PathwayKey(compatibleEvent.flowType, compatibleEvent.eventType)
    IN  IF providedSecret \in {UNDEF, ""}
        THEN [st EXCEPT !.pc = "rejected", !.thrown = InvalidSecretError]
        ELSE IF pathwayKey \notin pathways
        THEN [st EXCEPT !.pc = "rejected", !.pathwayKey = pathwayKey, !.lookups = 1,
                        !.thrown = PathwayNotFoundError(pathwayKey)]
        ELSE [st EXCEPT !.pc = "awaitProcess", !.pathwayKey = pathwayKey, !.lookups = 1,
                        !.registered = TRUE, !.processCalls = 1,
                        !.passed = [pathway |-> pathwayKey, event |-> compatibleEvent]]

\* router/index.ts:135-166: processEvent from its entry to `await this.pathways.process(...)`
RouterEntry(event, providedSecret) ==
    LET st == [IdleRouted EXCEPT !.event = event, !.providedSecret = providedSecret]
        compatibleEvent == CompatibleEvent(event)
        pathwayKey == PathwayKey(compatibleEvent.flowType, compatibleEvent.eventType)
    IN  IF SecretRefused(providedSecret)
        THEN [st EXCEPT !.pc = "rejected", !.thrown = InvalidSecretError]
        ELSE IF pathwayKey \notin pathways
        THEN [st EXCEPT !.pc = "rejected", !.pathwayKey = pathwayKey, !.lookups = 1,
                        !.thrown = PathwayNotFoundError(pathwayKey)]
        ELSE [st EXCEPT !.pc = "awaitProcess", !.pathwayKey = pathwayKey, !.lookups = 1,
                        !.registered = TRUE, !.processCalls = 1,
                        !.passed = [pathway |-> pathwayKey, event |-> compatibleEvent]]

\* PathwayRouter.processEvent: the process() it calls runs to its first await
\* in the same turn
ProcessEvent(r, c) ==
    /\ routed[r].pc = "idle"
    /\ calls[c].pc = "idle"
    /\ \E event \in LegacyEvents, providedSecret \in ProvidedSecrets :
          LET st == RouterEntry(event, providedSecret)
          IN  /\ routed' = [routed EXCEPT ![r] = [st EXCEPT !.call = c]]
              /\ calls' = IF st.pc = "awaitProcess"
                           THEN [calls EXCEPT ![c] =
                                   [ProcessEntry(st.passed.pathway, st.passed.event, FALSE)
                                       EXCEPT !.seen = Seen(st.passed.pathway,
                                                            st.passed.event.eventId)]]
                           ELSE calls
    /\ subscriptions' = Notify(calls[c], calls'[c])
    /\ UNCHANGED <<registry, pathwayState, writes, now, ticks, sessionBuilders, secretKey,
                   subjects, sessionTtl, stateStore, scenario, handleOutcome>>

\* router/index.ts:166-182: the awaited process() settles; its error is wrapped
ProcessEventSettles(r) ==
    /\ routed[r].pc = "awaitProcess"
    /\ calls[routed[r].call].pc \in {"resolved", "rejected"}
    /\ routed' = [routed EXCEPT ![r] =
          IF calls[routed[r].call].pc = "resolved"
          THEN [@ EXCEPT !.pc = "resolved", !.message = routed[r].pathwayKey]
          ELSE [@ EXCEPT !.pc = "rejected",
                         !.thrown = ProcessingFailedError(routed[r].pathwayKey,
                                                          calls[routed[r].call].thrown)]]
    /\ UNCHANGED <<registry, pathwayState, calls, writes, now, ticks, sessionBuilders,
                   secretKey, subjects, subscriptions, sessionTtl, stateStore, scenario, handleOutcome>>

-----------------------------------------------------------------------------
(* The processing state stores: InternalPathwayState and PostgresPathwayState *)

NoProbe == [id |-> UNDEF, at |-> 0, answer |-> FALSE, markedAt |-> None]

\* a store after construction: no row; marked and probe record the calls made:
\* when each id was last marked, and the last isProcessed call with its answer
NewStateStore(kind, ttlMs) ==
    [kind |-> kind, ttlMs |-> ttlMs,
     rows |-> [id \in EventIds |-> None],
     marked |-> [id \in EventIds |-> None],
     probe |-> NoProbe]

\* postgres-pathway-state.ts:154: config.ttlMs || DEFAULT_TTL_MS, and
\* internal-pathway.state.ts:13
ConfiguredTtl(st) ==
    IF st.kind = "postgres" /\ st.ttlMs \notin {None, Some(0)}
    THEN Coalesce(st.ttlMs, 0) ELSE DEFAULT_TTL_MS

\* a time to live that is kept to the millisecond
RowTtlExact(st) == ConfiguredTtl(st)

\* the time a row lives: postgres-pathway-state.ts:307, 311:
\* interval '${Math.floor(this.ttlMs / 1000)} seconds'; internal-pathway.state.ts:54
RowTtl(st) ==
    IF st.kind = "postgres" THEN (ConfiguredTtl(st) \div 1000) * 1000
    ELSE ConfiguredTtl(st)

\* postgres-pathway-state.ts:323-329: DELETE ... WHERE expires_at < NOW()
CleanupExpired(rows) ==
    [id \in EventIds |->
        IF rows[id] # None /\ Coalesce(rows[id], 0) < now THEN None ELSE rows[id]]

\* postgres-pathway-state.ts:253-261 (a row whose expires_at > NOW()),
\* internal-pathway.state.ts:40-44 (an entry that has not expired)
IsProcessed(st, eventId) ==
    st.rows[eventId] # None /\ Coalesce(st.rows[eventId], 0) > now

\* postgres-pathway-state.ts:299-315, internal-pathway.state.ts:52-55
StateSetProcessed(eventId) ==
    /\ stateStore' = [stateStore EXCEPT
                        !.rows[eventId] = Some(now + RowTtl(stateStore)),
                        !.marked[eventId] = Some(now)]
    /\ UNCHANGED <<registry, pathwayState, calls, writes, now, ticks, wrappers, subjects,
                   subscriptions, sessionTtl, scenario, handleOutcome>>

\* postgres-pathway-state.ts:247-262, internal-pathway.state.ts:40-44
StateIsProcessed(eventId) ==
    /\ stateStore' = [stateStore EXCEPT
                        !.rows = IF stateStore.kind = "postgres" THEN CleanupExpired(@) ELSE @,
                        !.probe = [id |-> eventId, at |-> now,
                                   answer |-> IsProcessed(stateStore, eventId),
                                   markedAt |-> stateStore.marked[eventId]]]
    /\ UNCHANGED <<registry, pathwayState, calls, writes, now, ticks, wrappers, subjects,
                   subscriptions, sessionTtl, scenario, handleOutcome>>

\* the stores the environment constructs
StateStores ==
    IF scenario = "store"
    THEN {NewStateStore("internal", None)}
            \cup {NewStateStore("postgres", ttlMs) : ttlMs \in {None, Some(1000), Some(1500)}}
    ELSE {NewStateStore("internal", None)}

-----------------------------------------------------------------------------
(* The builder after construction, builder.ts:175-295 *)

InitBuilder(timeoutOption) ==
    /\ pathways = {}
    /\ handlers = [k \in Keys |-> UNDEF]
    /\ schemas = [k \in Keys |-> UNDEF]
    /\ writable = [k \in Keys |-> None]
    /\ timeouts = [k \in Strings |-> None]
    /\ maxRetries = [k \in Keys |-> None]
    /\ retryDelays = [k \in Keys |-> None]
    /\ filePathways = {}
    /\ writers = [k \in Keys |-> UNDEF]
    /\ batchWriters = [k \in Keys |-> UNDEF]
    /\ pathwayTimeoutMs = IF timeoutOption \notin {None, Some(0)}
                          THEN Coalesce(timeoutOption, 0)
                          ELSE DEFAULT_PATHWAY_TIMEOUT_MS
    /\ auditHandler = FALSE
    /\ userIdResolver = UNDEF
    /\ sessionUserResolvers = [sid \in SessionKeys |-> UNDEF]
    /\ pathwayState = {}
    /\ calls = [c \in CallIds |-> IdleCall]
    /\ writes = [w \in WriteIds |-> IdleWrite]
    /\ now = 0
    /\ ticks = MaxTicks
    /\ handleOutcome = NoOutcome
    /\ sessionBuilders = [b \in SessionBuilders |-> NoSessionBuilder]
    /\ secretKey = IF scenario = "router" THEN "k1" ELSE UNDEF
    /\ routed = [r \in RouterCalls |-> IdleRouted]
    /\ beforeObservable = [k \in Keys |-> {}]
    /\ afterObservers = [k \in Keys |-> {}]
    /\ errorObservers = [k \in Keys |-> {}]
    /\ subscriptions = [x \in SubIds |-> NoSubscription]
    /\ sessionTimeouts = [sid \in SessionKeys |-> None]
    /\ timers = {}
    /\ sessionSets = [sid \in SessionKeys |-> NeverSet]
    /\ stateStore \in StateStores

Init ==
    /\ scenario = "dispatch"
    /\ InitBuilder(None)

Next ==
    \/ \E contract \in Contracts : Register(contract)
    \/ \E h \in EnvHandles : Handle(h[1], h[2])
    \/ WithAudit
    \/ \E c \in EnvCalls : Process(c)
    \/ \E c \in EnvCalls : HandlerSettles(c)
    \/ \E c \in EnvCalls : SetProcessedSettles(c)
    \/ \E c \in EnvCalls : RetryTimerFires(c)

Spec == Init /\ [][Next]_vars

\* The dispatches under the schedule the event loop gives them: an awaited
\* handler or setProcessed call that terminates settles its promise, and the
\* retry timer of builder.ts:506 fires
DispatchFairness ==
    \A c \in CallIds :
       /\ WF_vars(HandlerSettles(c))
       /\ WF_vars(SetProcessedSettles(c))
       /\ WF_vars(RetryTimerFires(c))

\* Dispatches with every retry budget, a handler and a state store that may
\* throw, scheduled fairly
InitFair ==
    /\ scenario = "termination"
    /\ InitBuilder(None)

NextFair ==
    \/ \E contract \in Contracts : Register(contract)
    \/ \E h \in EnvHandles : Handle(h[1], h[2])
    \/ \E c \in EnvCalls : Process(c)
    \/ \E c \in EnvCalls : HandlerSettles(c)
    \/ \E c \in EnvCalls : SetProcessedSettles(c)
    \/ \E c \in EnvCalls : RetryTimerFires(c)

SpecFair == InitFair /\ [][NextFair]_vars /\ DispatchFairness

\* The write path, with a dispatch of the written events running beside it
InitWrite ==
    /\ scenario = "write"
    /\ \E timeoutOption \in {None, Some(300)} : InitBuilder(timeoutOption)

NextWrite ==
    \/ \E contract \in Contracts : Register(contract)
    \/ \E h \in EnvHandles : Handle(h[1], h[2])
    \/ \E c \in EnvCalls : Process(c)
    \/ \E c \in EnvCalls : HandlerSettles(c)
    \/ \E c \in EnvCalls : SetProcessedSettles(c)
    \/ \E w \in EnvWrites : Write(w)
    \/ \E w \in EnvWrites : WriterSettles(w)
    \/ \E w \in EnvWrites : \E i \in 1..Len(writes[w].waits) : PollSettles(w, i)
    \/ \E w \in EnvWrites : \E i \in 1..Len(writes[w].waits) : PollTimerFires(w, i)
    \/ Tick

SpecWrite == InitWrite /\ [][NextWrite]_vars

\* The confirmation waits under the schedule the event loop gives them: an
\* isProcessed call that returns settles its promise, and the poll timer of
\* builder.ts:1055 fires
WaitFairness ==
    \A w \in WriteIds : \A i \in {1, 2} :
       /\ WF_vars(PollSettles(w, i))
       /\ WF_vars(PollTimerElapses(w, i))

InitWaiting ==
    /\ scenario = "waiting"
    /\ \E timeoutOption \in {Some(200), Some(300)} : InitBuilder(timeoutOption)

NextWaiting ==
    \/ \E contract \in Contracts : Register(contract)
    \/ \E c \in EnvCalls : Process(c)
    \/ \E c \in EnvCalls : SetProcessedSettles(c)
    \/ \E w \in EnvWrites : Write(w)
    \/ \E w \in EnvWrites : WriterSettles(w)
    \/ \E w \in EnvWrites : \E i \in 1..Len(writes[w].waits) : PollSettles(w, i)
    \/ \E w \in EnvWrites : \E i \in 1..Len(writes[w].waits) : PollTimerElapses(w, i)

SpecWaiting == InitWaiting /\ [][NextWaiting]_vars /\ WaitFairness

\* Two process calls, for the same event or for two events, and two handlers
\* competing for a key
InitRedelivery ==
    /\ scenario = "redelivery"
    /\ InitBuilder(None)

NextRedelivery ==
    \/ \E contract \in Contracts : Register(contract)
    \/ \E h \in EnvHandles : Handle(h[1], h[2])
    \/ \E c \in EnvCalls : Process(c)
    \/ \E c \in EnvCalls : HandlerSettles(c)
    \/ \E c \in EnvCalls : SetProcessedSettles(c)

SpecRedelivery == InitRedelivery /\ [][NextRedelivery]_vars

\* The gates and the audit annotation of the write path, with resolvers installed
InitAudit ==
    /\ scenario = "audit"
    /\ InitBuilder(None)

NextAudit ==
    \/ \E contract \in Contracts : Register(contract)
    \/ \E resolver \in EnvUserResolvers : WithUserResolver(resolver)
    \/ \E sr \in EnvSessionResolvers : WithSessionUserResolver(sr[1], sr[2])
    \/ \E w \in EnvWrites : Write(w)
    \/ \E w \in EnvWrites : SessionResolverSettles(w)
    \/ \E w \in EnvWrites : UserResolverSettles(w)
    \/ \E w \in EnvWrites : WriterSettles(w)
    \/ \E w \in EnvWrites : \E i \in 1..Len(writes[w].waits) : PollSettles(w, i)

SpecAudit == InitAudit /\ [][NextAudit]_vars

\* Two sessions, each with its own resolver, writing side by side
InitSessions ==
    /\ scenario = "sessions"
    /\ InitBuilder(None)

NextSessions ==
    \/ \E contract \in Contracts : Register(contract)
    \/ \E resolver \in EnvUserResolvers : WithUserResolver(resolver)
    \/ \E sr \in EnvSessionResolvers : WithSessionUserResolver(sr[1], sr[2])
    \/ \E w \in EnvWrites : Write(w)
    \/ \E w \in EnvWrites : SessionResolverSettles(w)
    \/ \E w \in EnvWrites : UserResolverSettles(w)
    \/ \E w \in EnvWrites : WriterSettles(w)

SpecSessions == InitSessions /\ [][NextSessions]_vars

\* File pathways beside webhook pathways, and keys registered more than once
InitFiles ==
    /\ scenario = "files"
    /\ InitBuilder(None)

NextFiles ==
    \/ \E contract \in Contracts : Register(contract)
    \/ \E w \in EnvWrites : Write(w)
    \/ \E w \in EnvWrites : WriterSettles(w)
    \/ \E w \in EnvWrites : \E i \in 1..Len(writes[w].waits) : PollSettles(w, i)

SpecFiles == InitFiles /\ [][NextFiles]_vars

\* A PathwayRouter constructed with secret "k1" in front of the builder
InitRouter ==
    /\ scenario = "router"
    /\ InitBuilder(None)

NextRouter ==
    \/ \E contract \in Contracts : Register(contract)
    \/ \E h \in EnvHandles : Handle(h[1], h[2])
    \/ \E r \in RouterCalls, c \in EnvCalls : ProcessEvent(r, c)
    \/ \E c \in EnvCalls : HandlerSettles(c)
    \/ \E c \in EnvCalls : SetProcessedSettles(c)
    \/ \E r \in RouterCalls : ProcessEventSettles(r)

SpecRouter == InitRouter /\ [][NextRouter]_vars

\* Subscribers of the lifecycle channels of two keys
InitSubscribe ==
    /\ scenario = "subscribe"
    /\ InitBuilder(None)

NextSubscribe ==
    \/ \E contract \in Contracts : Register(contract)
    \/ \E h \in EnvHandles : Handle(h[1], h[2])
    \/ \E x \in SubIds, path \in Keys, type \in SubscribeTypes : Subscribe(x, path, type)
    \/ \E c \in EnvCalls : Process(c)
    \/ \E c \in EnvCalls : HandlerSettles(c)
    \/ \E c \in EnvCalls : SetProcessedSettles(c)
    \/ \E c \in EnvCalls : RetryTimerFires(c)

SpecSubscribe == InitSubscribe /\ [][NextSubscribe]_vars

\* Subscribers of a key that is registered again, with a handler bound
InitResubscribe ==
    /\ scenario = "resubscribe"
    /\ InitBuilder(None)

NextResubscribe ==
    \/ \E contract \in Contracts : Register(contract)
    \/ \E h \in EnvHandles : Handle(h[1], h[2])
    \/ \E x \in SubIds, path \in Keys : Subscribe(x, path, "all")
    \/ \E x \in SubIds, path \in Keys : OnError(x, path)
    \/ \E c \in EnvCalls : Process(c)
    \/ \E c \in EnvCalls : HandlerSettles(c)
    \/ \E c \in EnvCalls : SetProcessedSettles(c)
    \/ \E c \in EnvCalls : RetryTimerFires(c)

SpecResubscribe == InitResubscribe /\ [][NextResubscribe]_vars

\* Session resolvers registered, registered again and expiring
InitExpiry ==
    /\ scenario = "expiry"
    /\ InitBuilder(None)

NextExpiry ==
    \/ \E sessionId \in SessionIds, resolver \in {"u1", "u2"} :
          WithSessionUserResolver(sessionId, resolver)
    \/ \E t \in timers : SessionTimerFires(t)
    \/ Tick

SpecExpiry == InitExpiry /\ [][NextExpiry]_vars

\* A processing state store on its own: ids marked and looked up as time passes
InitStore ==
    /\ scenario = "store"
    /\ InitBuilder(None)

NextStore ==
    \/ \E eventId \in EventIds : StateSetProcessed(eventId)
    \/ \E eventId \in EventIds : StateIsProcessed(eventId)
    \/ Tick

SpecStore == InitStore /\ [][NextStore]_vars

\* Writes made directly and through a session wrapper, with metadata and
\* options objects of the caller
InitFrame ==
    /\ scenario = "frame"
    /\ InitBuilder(None)

NextFrame ==
    \/ \E contract \in Contracts : Register(contract)
    \/ \E b \in {"sb1"}, sessionId \in {"s1"} : NewSessionPathwayBuilder(b, sessionId)
    \/ \E b \in {"sb1"}, resolver \in {"u1"} : SessionWithUserResolver(b, resolver)
    \/ \E b \in {"sb1"}, w \in EnvWrites : SessionWrite(b, w)
    \/ \E w \in EnvWrites : Write(w)
    \/ \E w \in EnvWrites : SessionResolverSettles(w)
    \/ \E w \in EnvWrites : WriterSettles(w)

SpecFrame == InitFrame /\ [][NextFrame]_vars

\* Two dispatches of one key in flight at once, each with retries
InitReentrant ==
    /\ scenario = "reentrant"
    /\ InitBuilder(None)

NextReentrant ==
    \/ \E contract \in Contracts : Register(contract)
    \/ \E h \in EnvHandles : Handle(h[1], h[2])
    \/ \E c \in EnvCalls : Process(c)
    \/ \E c \in EnvCalls : HandlerSettles(c)
    \/ \E c \in EnvCalls : SetProcessedSettles(c)
    \/ \E c \in EnvCalls : RetryTimerFires(c)

SpecReentrant == InitReentrant /\ [][NextReentrant]_vars

\* Session wrappers around one builder, writing through it
InitSessionBuilder ==
    /\ scenario = "wrapper"
    /\ InitBuilder(None)

NextSessionBuilder ==
    \/ \E contract \in Contracts : Register(contract)
    \/ \E b \in SessionBuilders, sessionId \in {UNDEF, "", "s1"} :
          NewSessionPathwayBuilder(b, sessionId)
    \/ \E b \in SessionBuilders, resolver \in {"u1"} : SessionWithUserResolver(b, resolver)
    \/ \E b \in SessionBuilders, w \in EnvWrites : SessionWrite(b, w)
    \/ \E w \in EnvWrites : SessionResolverSettles(w)
    \/ \E w \in EnvWrites : WriterSettles(w)

SpecSessionBuilder == InitSessionBuilder /\ [][NextSessionBuilder]_vars

-----------------------------------------------------------------------------
(* What the claims speak of, read off a call's history *)

Tr(c) == calls[c].trace
Settled(c) == calls[c].pc \in {"resolved", "rejected"}
\* the call reached the retry loop: the handler was invoked at least once
InLoop(c) == CountEv(Tr(c), "handler") > 0
\* the N of "registered with maxRetries = N", as the registry stood at entry
RegisteredRetries(c) == Coalesce(calls[c].seen.maxRetries, DEFAULT_MAX_RETRIES)
EveryInvocationThrew(c) == CountEv(Tr(c), "handlerReturned") = 0
\* the state store honoured its contract: no setProcessed call of the dispatch threw
StoreHonoured(c) == CountEv(Tr(c), "setProcessedThrew") = 0
\* the dispatch gave up: the catch block took its last branch
Exhausted(c) == calls[c].error # NoError

\* C1: with maxRetries = N and a handler that throws on every invocation, a
\* process call ends rejected, after exactly N + 1 handler invocations, N + 1
\* emissions on the pathway's error channel and N + 1 on the global one.
C1_RetryCount ==
    \A c \in CallIds :
        (InLoop(c) /\ EveryInvocationThrew(c)) =>
            /\ calls[c].pc # "resolved"
            /\ Settled(c) =>
                  /\ CountEv(Tr(c), "handler") = RegisteredRetries(c) + 1
                  /\ CountEv(Tr(c), "error") = RegisteredRetries(c) + 1
                  /\ CountEv(Tr(c), "globalError") = RegisteredRetries(c) + 1

C1_Witness ==
    \E c \in CallIds :
        /\ calls[c].pc = "rejected" /\ InLoop(c) /\ EveryInvocationThrew(c)
        /\ calls[c].seen.maxRetries = Some(1)
        /\ CountEv(Tr(c), "handler") = 2

\* C2: a process call that ended by handler success, by the pass-through or by
\* exhausting its retries made exactly one setProcessed call, and no
\* setProcessed call was made while a retry of the dispatch is pending.
C2_OneSetProcessed ==
    \A c \in CallIds :
        /\ (calls[c].pc = "resolved" \/ (calls[c].pc = "rejected" /\ Exhausted(c)))
              => CountEv(Tr(c), "setProcessed") = 1
        /\ calls[c].pc = "sleeping" => CountEv(Tr(c), "setProcessed") = 0

\* C3: once the handler was invoked or `after` or an error was emitted, `before`
\* has been emitted exactly once, ahead of all of them; it is never emitted twice.
C3_BeforeOnceAndFirst ==
    \A c \in CallIds :
        /\ CountEv(Tr(c), "before") <= 1
        /\ InLoop(c) =>
              /\ CountEv(Tr(c), "before") = 1
              /\ \A i \in 1..Len(Tr(c)) :
                    Tr(c)[i].ev \in {"handler", "after", "error", "globalError"}
                        => FirstEv(Tr(c), "before") < i

C3_Witness ==
    \E c \in CallIds :
        /\ calls[c].retryCount >= 1
        /\ CountEv(Tr(c), "handler") >= 2
        /\ CountEv(Tr(c), "before") = 1

\* C4: whenever the handler failed on its first k invocations and succeeded on
\* invocation k + 1 (k <= maxRetries), and the state store's setProcessed
\* returned normally, process does not reject: it resolves after exactly k + 1
\* handler invocations, k error emissions and one `after`, with the event marked.
C4_EventualSuccess ==
    \A c \in CallIds :
        (CountEv(Tr(c), "handlerReturned") > 0 /\ StoreHonoured(c)) =>
            LET k == CountEv(Tr(c), "handlerThrew")
            IN  /\ calls[c].pc \in {"awaitSetProcessed", "resolved"}
                /\ k <= RegisteredRetries(c)
                /\ CountEv(Tr(c), "handler") = k + 1
                /\ CountEv(Tr(c), "error") = k
                /\ CountEv(Tr(c), "after") = 1
                /\ calls[c].pc = "resolved" => calls[c].eventId \in pathwayState

C4_Witness ==
    \E c \in CallIds :
        /\ calls[c].pc = "resolved" /\ StoreHonoured(c)
        /\ CountEv(Tr(c), "handlerThrew") = 2
        /\ CountEv(Tr(c), "handlerReturned") = 1

\* C5: a dispatch that exhausted its retries (the state store's setProcessed
\* returning normally) is rejected only once the event is marked processed, with
\* the error of handler invocation maxRetries + 1, and emitted no `after`.
C5_ExhaustedMarksThenRejects ==
    \A c \in CallIds :
        (Exhausted(c) /\ StoreHonoured(c)) =>
            /\ CountEv(Tr(c), "after") = 0
            /\ calls[c].error = HandlerError(RegisteredRetries(c) + 1)
            /\ calls[c].pc = "rejected" =>
                  /\ calls[c].eventId \in pathwayState
                  /\ calls[c].thrown = HandlerError(RegisteredRetries(c) + 1)

C5_Witness ==
    \E c \in CallIds :
        /\ calls[c].pc = "rejected" /\ Exhausted(c) /\ StoreHonoured(c)
        /\ calls[c].thrown = HandlerError(2)

\* C6: on a registered pathway without a handler, for an event whose payload
\* passes the schema (the audit handler, if any, and setProcessed returning
\* normally), process emits one `before`, then one `after`, no error, and
\* resolves with the event marked processed.
PassThroughCase(c) ==
    /\ calls[c].pc # "idle"
    /\ calls[c].seen.registered
    /\ calls[c].seen.handler = UNDEF
    /\ calls[c].seen.schema # UNDEF => ValueCheck(calls[c].seen.schema, calls[c].payload)
    /\ calls[c].thrown # AuditError
    /\ StoreHonoured(c)

C6_PassThrough ==
    \A c \in CallIds :
        PassThroughCase(c) =>
            /\ CountEv(Tr(c), "before") = 1
            /\ CountEv(Tr(c), "after") = 1
            /\ FirstEv(Tr(c), "before") < FirstEv(Tr(c), "after")
            /\ CountEv(Tr(c), "error") = 0
            /\ CountEv(Tr(c), "globalError") = 0
            /\ CountEv(Tr(c), "handler") = 0
            /\ calls[c].pc \in {"awaitSetProcessedNoHandler", "resolved"}
            /\ calls[c].pc = "resolved" => calls[c].eventId \in pathwayState

C6_Witness ==
    \E c \in CallIds :
        /\ PassThroughCase(c) /\ calls[c].pc = "resolved"
        /\ calls[c].seen.schema # UNDEF

-----------------------------------------------------------------------------
(* The write path *)

Waits(w) == writes[w].waits
Confirming(w) == writes[w].options.fireAndForget # Some(TRUE)
\* isProcessed has returned true to the wait
ReportedProcessed(wt) == wt.answers # <<>> /\ wt.answers[Len(wt.answers)]

\* C7: a write or writeBatch without fireAndForget that has resolved started one
\* wait per event id the writer returned, and isProcessed has returned true to
\* every one of them.
C7_ResolvesAfterEveryIdProcessed ==
    \A w \in WriteIds :
        (writes[w].pc = "resolved" /\ Confirming(w)) =>
            /\ Len(Waits(w)) = Len(writes[w].eventIds)
            /\ \A i \in 1..Len(writes[w].eventIds) :
                  /\ Waits(w)[i].eventId = writes[w].eventIds[i]
                  /\ ReportedProcessed(Waits(w)[i])
                  /\ writes[w].eventIds[i] \in pathwayState

C7_Witness ==
    \E w \in WriteIds :
        /\ writes[w].pc = "resolved" /\ Confirming(w)
        /\ writes[w].eventIds = <<"e1">>
        /\ Waits(w)[1].answers = <<FALSE, TRUE>>

\* the timeout the pathway key of the write is entitled to
EffectiveTimeout(path) == Coalesce(timeouts[path], pathwayTimeoutMs)

\* C8: every confirmation wait of a write to key K applies the timeoutMs
\* registered for K, or the builder-wide pathwayTimeoutMs when none was
\* registered: no wait goes back to sleep after a poll later than that, and a
\* wait that timed out rejects the write with the timeout error.
C8_EffectiveTimeout ==
    \A w \in WriteIds : \A i \in 1..Len(Waits(w)) :
        LET wt == Waits(w)[i]
            effective == EffectiveTimeout(writes[w].path)
        IN  /\ wt.timeoutMs = effective
            /\ wt.pc = "sleeping" =>
                  (wt.wakeAt - POLL_INTERVAL_MS) - wt.startTime <= effective
            /\ wt.pc = "timedOut" =>
                  writes[w].pc = "rejected" /\ writes[w].thrown = TimeoutError

\* a dispatch of event E gave up, and the state store took the mark
GaveUpOn(eventId) ==
    \E c \in CallIds :
        /\ calls[c].pc = "rejected" /\ Exhausted(c) /\ StoreHonoured(c)
        /\ calls[c].eventId = eventId

C9_Step ==
    /\ \A w \in WriteIds : \A i \in 1..Len(Waits(w)) :
          (/\ Waits(w)[i].pc = "polling"
           /\ writes'[w].waits[i].pc # "polling"
           /\ GaveUpOn(Waits(w)[i].eventId))
             => /\ writes'[w].waits[i].pc = "done"
                /\ (\A j \in 1..Len(Waits(w)) : writes'[w].waits[j].pc = "done")
                      => writes'[w].pc \in {"resolved", "rejected"}
                /\ Len(Waits(w)) = 1 => writes'[w].pc = "resolved"
    /\ \A c \in CallIds :
          (calls'[c].pc = "rejected" /\ calls'[c].error # NoError
             /\ CountEv(calls'[c].trace, "setProcessedThrew") = 0)
             => /\ calls'[c].eventId \in pathwayState'
                /\ calls'[c].thrown = calls'[c].error
    /\ \A w \in WriteIds : writes'[w].thrown.src \notin {"handler", "store"}

\* C9: once a dispatch of event E has exhausted its retries (the state store
\* having taken the mark), E is in the processed state, the handler's error is
\* what the process call threw, the next isProcessed answer ends a wait for E
\* successfully, and no write ever throws a handler's error.
C9_HandlerFailureFreesTheWrite == [][C9_Step]_vars

C9_Witness ==
    \E w \in WriteIds, c \in CallIds :
        /\ calls[c].pc = "rejected" /\ calls[c].thrown = HandlerError(1)
        /\ StoreHonoured(c)
        /\ writes[w].pc = "resolved" /\ Confirming(w)
        /\ writes[w].eventIds = <<calls[c].eventId>>
        /\ Waits(w)[1].answers = <<FALSE, FALSE, TRUE>>
        /\ writes[w].thrown = NoError

\* C10: a write with fireAndForget = true never starts a confirmation wait (so
\* never calls isProcessed) and never times out: when the writer call has
\* resolved, the write has resolved with the writer's event ids.
C10_FireAndForget ==
    \A w \in WriteIds :
        (writes[w].pc # "idle" /\ ~Confirming(w)) =>
            /\ Waits(w) = <<>>
            /\ writes[w].pc # "waiting"
            /\ writes[w].thrown # TimeoutError
            /\ writes[w].eventIds # <<>> => writes[w].pc = "resolved"
            /\ writes[w].pc = "resolved" => writes[w].writerCalls = 1

C10_Witness ==
    \E w \in WriteIds :
        /\ writes[w].pc = "resolved" /\ ~Confirming(w)
        /\ writes[w].eventIds = <<"e1", "e2">>
        /\ "e1" \notin pathwayState /\ "e2" \in pathwayState
        /\ now > DEFAULT_PATHWAY_TIMEOUT_MS

-----------------------------------------------------------------------------
(* The gates of the write path *)

\* the step in which write w is called
Entered(w) == writes[w].pc = "idle" /\ writes'[w].pc # "idle"
ResolversInstalled == userIdResolver # UNDEF /\ sessionUserResolvers["s1"] # UNDEF
NothingInvoked(st) ==
    /\ st.resolverCalls = 0 /\ st.asked = <<>>
    /\ st.writerCalls = 0 /\ st.writer = UNDEF
    /\ st.waits = <<>>

C11_Step ==
    \A w \in WriteIds :
        /\ (Entered(w) /\ (writes'[w].path \notin pathways
                             \/ writable[writes'[w].path] = Some(FALSE)))
              => /\ writes'[w].pc = "rejected"
                 /\ writes'[w].thrown \in {NotFoundError, NotWritableError}
                 /\ writes'[w].schemaChecks = 0
                 /\ NothingInvoked(writes'[w])
        /\ writes[w].pc = "rejected" => writes'[w] = writes[w]

\* C11: a write or writeBatch called on a key that is unregistered or
\* registered with writable: false is rejected in the step of the call, with no
\* schema check, no resolver call, no writer call and no confirmation wait, and
\* a rejected write does nothing afterwards.
C11_NotWritableGate == [][C11_Step]_vars

C11_Witness ==
    \E w \in WriteIds :
        /\ writes[w].pc = "rejected" /\ writes[w].thrown = NotWritableError
        /\ writes[w].kind = "writeBatch" /\ writes[w].options.sessionId = "s1"
        /\ ResolversInstalled

C12_Step ==
    \A w \in WriteIds :
        (/\ Entered(w)
         /\ writes'[w].path \in pathways
         /\ writable[writes'[w].path] = Some(TRUE)
         /\ \E i \in 1..Len(writes'[w].data) :
               ~ValueCheck(schemas[writes'[w].path], writes'[w].data[i]))
            => /\ writes'[w].pc = "rejected"
               /\ writes'[w].thrown = ValidationError
               /\ NothingInvoked(writes'[w])

\* C12: a write whose payload fails the schema of the (registered, writable)
\* pathway, and a writeBatch in which any one element fails it, is rejected with
\* the validation error in the step of the call: no writer and no user resolver
\* was invoked.
C12_SchemaGate == [][C12_Step]_vars

C12_Witness ==
    \E w \in WriteIds :
        /\ writes[w].pc = "rejected" /\ writes[w].thrown = ValidationError
        /\ writes[w].kind = "writeBatch" /\ writes[w].data = <<"p1", "p2">>
        /\ writes[w].options.sessionId = "s1" /\ ResolversInstalled
        /\ writes[w].writerCalls = 0 /\ writes[w].resolverCalls = 0

-----------------------------------------------------------------------------
(* Redelivery and competing handlers *)

\* C13: a process call for an event id that the state store already reported
\* as processed when the call was made never invokes the handler.
C13_ExactlyOnce ==
    \A c \in CallIds : calls[c].seen.processed => CountEv(Tr(c), "handler") = 0

C14_Step ==
    /\ \A k \in Keys : handlers[k] # UNDEF => handlers'[k] = handlers[k]
    /\ handleOutcome' # handleOutcome =>
          LET call == handleOutcome'
          IN  (call.path \in pathways /\ handlers[call.path] # UNDEF)
                 => /\ call.thrown = AlreadyHandledError
                    /\ handlers' = handlers
    /\ \A c \in CallIds : \A i \in 1..Len(calls'[c].trace) :
          calls'[c].trace[i].ev = "handler" =>
             /\ calls'[c].trace[i].src = handlers'[calls'[c].pathway]
             /\ calls'[c].trace[i].src = calls'[c].seen.handler

\* C14: a handle call on a key that already has a handler throws and leaves
\* the binding alone; a bound handler is never replaced, and every handler
\* invocation of a process call runs the handler bound to the key.
C14_DuplicateHandlerRejected == [][C14_Step]_vars

C14_Witness ==
    \E c \in CallIds :
        /\ handleOutcome = [path |-> "f1/t1", handler |-> "h2", thrown |-> AlreadyHandledError]
        /\ handlers["f1/t1"] = "h1"
        /\ calls[c].pc = "resolved"
        /\ \E i \in 1..Len(Tr(c)) : Tr(c)[i].ev = "handler" /\ Tr(c)[i].src = "h1"

-----------------------------------------------------------------------------
(* Error channels and the gates of process *)

\* the positions of call c's history at which attempt n's error went out as ev
EmissionsOf(c, ev, n) ==
    {j \in 1..Len(Tr(c)) : Tr(c)[j].ev = ev /\ Tr(c)[j].src = "handler" /\ Tr(c)[j].n = n}

C16_NotFound ==
    \A c \in CallIds :
        (calls[c].pc # "idle" /\ ~calls[c].seen.registered) =>
            /\ calls[c].pc = "rejected"
            /\ calls[c].thrown = NotFoundError
            /\ Tr(c) = <<>>
            /\ calls[c].eventId \notin pathwayState

C16_Witness ==
    \E c \in CallIds :
        /\ calls[c].pc = "rejected" /\ calls[c].thrown = NotFoundError
        /\ calls[c].seen.audit /\ calls[c].pathway = "f2/t1"

\* the payload of the call fails the schema the key had when the call was made
SchemaMismatch(c) ==
    /\ calls[c].pc # "idle"
    /\ calls[c].seen.registered
    /\ calls[c].seen.schema # UNDEF
    /\ ~ValueCheck(calls[c].seen.schema, calls[c].payload)

\* C17: a process call whose payload fails the pathway's schema is rejected
\* with the validation error and did nothing else: no handler or audit-handler
\* invocation, no emission, no setProcessed call; the event is not marked.
C17_SchemaMismatch ==
    \A c \in CallIds :
        SchemaMismatch(c) =>
            /\ calls[c].pc = "rejected"
            /\ calls[c].thrown = ValidationError
            /\ Tr(c) = <<>>
            /\ calls[c].eventId \notin pathwayState

C17_Witness ==
    \E c \in CallIds :
        /\ SchemaMismatch(c) /\ calls[c].thrown = ValidationError
        /\ calls[c].seen.audit /\ calls[c].seen.handler # UNDEF

-----------------------------------------------------------------------------
(* The audit annotation *)

\* the writer of write w has been handed the metadata
WriterInvoked(w) == writes[w].writerCalls > 0
SystemMode(w) == writes[w].options.auditMode = "system"
\* every key outside the audit/ namespace is the caller's
OtherKeysKept(w) == writes[w].sent["note"] = writes[w].metadata["note"]

\* C18: in audit mode "system" with a resolved user id u, the metadata handed
\* to the writer has audit/user-id = "system", audit/on-behalf-of = u and
\* audit/mode = "system", whatever audit keys the caller's metadata carried.
C18_SystemMode ==
    \A w \in WriteIds :
        (WriterInvoked(w) /\ SystemMode(w) /\ writes[w].userId # UNDEF) =>
            /\ writes[w].sent["audit/user-id"] = "system"
            /\ writes[w].sent["audit/on-behalf-of"] = writes[w].userId
            /\ writes[w].sent["audit/mode"] = "system"
            /\ OtherKeysKept(w)
            /\ writes[w].userId = LastAsked(writes[w]).fn

C18_Witness ==
    \E w \in WriteIds :
        /\ WriterInvoked(w) /\ SystemMode(w) /\ writes[w].kind = "writeBatch"
        /\ writes[w].metadata = CallerAudit
        /\ writes[w].userId = "u1"
        /\ writes[w].sent["audit/on-behalf-of"] = "u1"

\* C19: in audit mode "user" (also when options.auditMode is absent) with a
\* resolved user id u, the metadata handed to the writer has audit/user-id = u
\* and audit/mode = "user", and its audit/on-behalf-of is what the caller
\* passed (none is added); with no user id resolved, in either mode, the
\* metadata handed to the writer is the caller's, unchanged.
C19_UserMode ==
    \A w \in WriteIds :
        WriterInvoked(w) =>
            /\ (~SystemMode(w) /\ writes[w].userId # UNDEF) =>
                  /\ writes[w].sent["audit/user-id"] = writes[w].userId
                  /\ writes[w].sent["audit/mode"] = "user"
                  /\ writes[w].sent["audit/on-behalf-of"] = writes[w].metadata["audit/on-behalf-of"]
                  /\ OtherKeysKept(w)
            /\ writes[w].userId = UNDEF => writes[w].sent = writes[w].metadata

C19_Witness ==
    \E w \in WriteIds :
        /\ WriterInvoked(w) /\ writes[w].options.auditMode = UNDEF
        /\ writes[w].metadata = NoMetadata
        /\ writes[w].userId = "u0"
        /\ writes[w].sent["audit/user-id"] = "u0"
        /\ writes[w].sent["audit/on-behalf-of"] = UNDEF

-----------------------------------------------------------------------------
(* Session isolation *)

\* the user named by the resolver that session sid installs
OwnUser(sid) == (CHOOSE sr \in EnvSessionResolvers : sr[1] = sid)[2]
OtherUsers(sid) == {sr[2] : sr \in {x \in EnvSessionResolvers : x[1] # sid}}
\* write w of the next state got past the gates of write()
PassedGates(w) == Entered(w) /\ writes'[w].schemaChecks = 1 /\ writes'[w].pc # "rejected"

C20_Step ==
    \A w \in WriteIds :
        LET st == writes'[w]
            sid == st.options.sessionId
        IN  /\ (PassedGates(w) /\ sid # UNDEF /\ sessionUserResolvers[sid] # UNDEF)
                  => st.asked = <<[scope |-> "session", fn |-> sessionUserResolvers[sid],
                                   outcome |-> "pending"]>>
            /\ (st.pc # "idle" /\ sid # UNDEF) =>
                  /\ st.userId \notin OtherUsers(sid)
                  /\ \A i \in 1..Len(st.asked) : st.asked[i].fn \notin OtherUsers(sid)
                  /\ (st.asked # <<>> /\ st.asked[1].outcome = "returned"
                        /\ st.asked[1].scope = "session")
                        => /\ Len(st.asked) = 1
                           /\ st.userId = OwnUser(sid)
                  /\ st.writerCalls > 0 =>
                        /\ st.sent["audit/user-id"] \notin OtherUsers(sid)
                        /\ st.userId # UNDEF => st.sent["audit/user-id"] = st.userId

\* C20: a write with options.sessionId = s asks the resolver registered for s
\* when there is one, takes the user id that resolver returns without asking
\* the registry-wide resolver, and never asks, or shows in its audit metadata
\* the user of, a resolver registered for another session id.
C20_SessionIsolation == [][C20_Step]_vars

C20_Witness ==
    /\ userIdResolver # UNDEF
    /\ writes["w1"].options.sessionId = "s1" /\ writes["w2"].options.sessionId = "s2"
    /\ writes["w1"].pc = "resolved" /\ writes["w2"].pc = "awaitWriter"
    /\ writes["w1"].sent["audit/user-id"] = "u1"
    /\ writes["w2"].sent["audit/user-id"] = "u2"

-----------------------------------------------------------------------------
(* Resolver failures *)

SessionResolverThrew(w) ==
    /\ writes[w].asked # <<>>
    /\ writes[w].asked[1].scope = "session"
    /\ writes[w].asked[1].outcome = "threw"

GlobalResolverThrew(w) ==
    \E i \in 1..Len(writes[w].asked) :
        writes[w].asked[i].scope = "global" /\ writes[w].asked[i].outcome = "threw"

\* C21: a write whose session resolver threw does not fail on a resolver's
\* account, asks no other resolver, and hands the writer the caller's metadata
\* with no audit key added.
C21_SessionFailureSwallowed ==
    \A w \in WriteIds :
        SessionResolverThrew(w) =>
            /\ writes[w].thrown # ResolverError
            /\ Len(writes[w].asked) = 1
            /\ writes[w].userId = UNDEF
            /\ WriterInvoked(w) => writes[w].sent = writes[w].metadata

\* C22: a write whose registry-wide resolver threw is rejected with that
\* failure; no writer was invoked and no confirmation wait was started.
C22_GlobalFailurePropagates ==
    \A w \in WriteIds :
        GlobalResolverThrew(w) =>
            /\ writes[w].pc = "rejected"
            /\ writes[w].thrown = ResolverError
            /\ writes[w].writerCalls = 0 /\ writes[w].writer = UNDEF
            /\ writes[w].waits = <<>> /\ writes[w].eventIds = <<>>

C22_Witness ==
    \E w \in WriteIds :
        /\ GlobalResolverThrew(w) /\ writes[w].pc = "rejected"
        /\ writes[w].kind = "writeBatch" /\ Confirming(w)
        /\ writes[w].options.sessionId = UNDEF

-----------------------------------------------------------------------------
(* Session wrappers *)

\* the wrapper was constructed
Constructed(b) == sessionBuilders[b].sessionId # UNDEF

\* C23: the write a session wrapper makes on the builder carries the caller's
\* key, payload, metadata and options, with options.sessionId set to the
\* wrapper's own id when the caller's options carry none and left as the
\* caller gave it otherwise; the id getSessionId returns never changes once the
\* wrapper is constructed, and it is the id given to the constructor when one
\* was given.
C23_Step ==
    \A b \in SessionBuilders :
       /\ Constructed(b) => sessionBuilders'[b].sessionId = GetSessionId(b)
       /\ sessionBuilders'[b].given # UNDEF
             => sessionBuilders'[b].sessionId = sessionBuilders'[b].given
       /\ \A i \in 1..Len(sessionBuilders'[b].passed) :
             LET call == sessionBuilders'[b].passed[i]
                 st == writes'[call.w]
             IN  /\ st.kind = "write"
                 /\ st.path = call.path
                 /\ st.data = call.data
                 /\ st.metadata = call.metadata
                 /\ st.options.fireAndForget = call.options.fireAndForget
                 /\ st.options.auditMode = call.options.auditMode
                 /\ st.options.sessionId =
                       IF call.options.sessionId = UNDEF
                       THEN sessionBuilders'[b].sessionId
                       ELSE call.options.sessionId

C23_SessionIdInjected == [][C23_Step]_vars

\* a wrapper with a generated id wrote without a session id in the options, and
\* the resolver registered under the generated id was asked before the writer
\* was invoked
C23_Witness ==
    \E b \in SessionBuilders : \E i \in 1..Len(sessionBuilders[b].passed) :
       LET call == sessionBuilders[b].passed[i]
           st == writes[call.w]
       IN  /\ sessionBuilders[b].given = UNDEF
           /\ call.options.sessionId = UNDEF
           /\ st.options.sessionId \in UUIDs
           /\ Len(st.asked) = 1 /\ st.asked[1].scope = "session"
           /\ st.writerCalls = 1

-----------------------------------------------------------------------------
(* Transport failures, file pathways and re-registration *)

\* the writer of write w rejected
WriterRejected(w) == \E i \in 1..Len(writes[w].answered) : ~writes[w].answered[i]

\* C24: when the writer (webhook, batch or file) rejects, the write rejects with
\* the writer's error, the writer was invoked once and is not invoked again,
\* and no confirmation wait was started, so isProcessed is never called for
\* the write; the same with and without fireAndForget.
C24_WriterFailurePropagates ==
    \A w \in WriteIds :
       WriterRejected(w)
          => /\ writes[w].pc = "rejected"
             /\ writes[w].thrown = TransportError
             /\ writes[w].writerCalls = 1
             /\ Len(writes[w].answered) = 1
             /\ writes[w].waits = <<>>
             /\ writes[w].eventIds = <<>>

\* the file writer rejected a write that asked for confirmation
C24_Witness ==
    \E w \in WriteIds :
       /\ WriterRejected(w)
       /\ writes[w].writer = "file"
       /\ writes[w].options.fireAndForget = None
       /\ writes[w].thrown = TransportError

\* the configuration in effect for a key; None stands for "the default applies"
ConfigOf(path) ==
    [schema |-> schemas[path], writable |-> writable[path],
     writer |-> writers[path], batchWriter |-> batchWriters[path],
     file |-> path \in filePathways, timeoutMs |-> timeouts[path],
     maxRetries |-> maxRetries[path], retryDelayMs |-> retryDelays[path]]

\* the configuration a key has when the contract is the only one registered for it
OnlyRegistration(contract) ==
    LET w == Coalesce(contract.writable, TRUE)
        file == Coalesce(contract.isFilePathway, FALSE)
    IN  [schema |-> contract.schema, writable |-> Some(w),
         writer |-> IF ~w THEN UNDEF ELSE IF file THEN "file" ELSE "webhook",
         batchWriter |-> IF w /\ ~file THEN "batch" ELSE UNDEF,
         file |-> w /\ file,
         timeoutMs |-> IF contract.timeoutMs \in {None, Some(0)} THEN None
                       ELSE contract.timeoutMs,
         maxRetries |-> contract.maxRetries, retryDelayMs |-> contract.retryDelayMs]

FirstRegistrationStep ==
    \A contract \in Contracts :
       LET path == PathwayKey(contract.flowType, contract.eventType)
       IN  (path \notin pathways /\ Register(contract))
              => ConfigOf(path)' = OnlyRegistration(contract)

\* a first registration gives the key the configuration of its contract
FirstRegistration == [][FirstRegistrationStep]_vars

C25_Step ==
    \A contract \in Contracts :
       LET path == PathwayKey(contract.flowType, contract.eventType)
       IN  (path \in pathways /\ Register(contract))
              => ConfigOf(path)' = OnlyRegistration(contract)

\* C25: registering a key that is already registered leaves the key with the
\* schema, writability, writer, batch writer, file-mode flag, timeout and retry
\* policy of the later contract alone, as if no earlier registration had been
\* made.
C25_ReRegistrationOverwrites == [][C25_Step]_vars

\* C26: a writeBatch on a key whose registration in effect is a file pathway
\* (its writer is the file writer) is rejected, and no writer is invoked for it.
C26_NoBatchOnFilePathway ==
    \A w \in WriteIds :
       (writes[w].kind = "writeBatch" /\ writes[w].seen.writer = "file")
          => /\ writes[w].pc = "rejected"
             /\ writes[w].writerCalls = 0

-----------------------------------------------------------------------------
(* Backoff and retry defaults *)

\* the D of "registered with retryDelayMs = D", as the registry stood at entry
RegisteredDelay(c) == Coalesce(calls[c].seen.retryDelayMs, DEFAULT_RETRY_DELAY_MS)

\* the handler invocations and the sleeps of a call, in the order they happened
AttemptsAndSleeps(c) == SelectSeq(Tr(c), LAMBDA e : e.ev \in {"handler", "sleep"})

\* the delays the call slept, in order
Sleeps(c) ==
    LET s == SelectSeq(Tr(c), LAMBDA e : e.ev = "sleep")
    IN  [i \in 1..Len(s) |-> s[i].n]

C28_WitnessZero ==
    \E c \in CallIds :
       /\ calls[c].pc = "rejected" /\ EveryInvocationThrew(c)
       /\ calls[c].seen.maxRetries = Some(0)
       /\ CountEv(Tr(c), "handler") = 1

-----------------------------------------------------------------------------
(* The router *)

\* processEvent call r was made, with a secret that is missing or is not the
\* router's
BadSecret(r) ==
    /\ routed[r].pc # "idle"
    /\ routed[r].providedSecret \in {UNDEF, ""} \/ routed[r].providedSecret # secretKey

\* processEvent call r was made with the router's secret
GoodSecret(r) == routed[r].pc # "idle" /\ routed[r].providedSecret = secretKey

C29_Step ==
    \A r \in RouterCalls :
       /\ (routed[r].pc = "idle" /\ BadSecret(r)')
             => /\ calls' = calls
                /\ pathwayState' = pathwayState
       /\ BadSecret(r)'
             => /\ routed'[r].pc = "rejected"
                /\ routed'[r].thrown = InvalidSecretError
                /\ routed'[r].lookups = 0
                /\ routed'[r].processCalls = 0

\* C29: a processEvent call with a missing secret, or with a secret other than
\* the router's, rejects with "Invalid secret key" whatever the event is; it
\* looks no pathway up and calls process not at all, so the call starts no
\* dispatch (no handler, no lifecycle emission) and marks nothing processed.
C29_InvalidSecret == [][C29_Step]_vars

\* a call with a wrong secret for an event whose key is registered and handled
\* was refused
C29_Witness ==
    \E r \in RouterCalls :
       /\ routed[r].providedSecret = "k2"
       /\ routed[r].thrown = InvalidSecretError
       /\ PathwayKey(routed[r].event.flowType, routed[r].event.eventType) \in pathways
       /\ handlers[PathwayKey(routed[r].event.flowType, routed[r].event.eventType)] # UNDEF
       /\ \A c \in CallIds : calls[c] = IdleCall

\* the flow type the router is to use for an event: its aggregator when it has one
RoutedFlowType(event) ==
    IF event.aggregator \in {UNDEF, ""} THEN event.flowType ELSE event.aggregator

\* C30: a processEvent call with the router's secret forms the key
\* "<flowType>/<eventType>", with the event's aggregator as the flowType when
\* the event has one.  When the key is registered, process is called once,
\* with that key and with the event carrying that flowType; when it is not,
\* the call rejects with "Pathway <key> not found" and process is not called.
C30_Routing ==
    \A r \in RouterCalls :
       GoodSecret(r) =>
          LET event == routed[r].event
              key == RoutedFlowType(event) \o "/" \o event.eventType
          IN  /\ routed[r].pathwayKey = key
              /\ routed[r].registered
                    => /\ routed[r].processCalls = 1
                       /\ routed[r].passed.pathway = key
                       /\ routed[r].passed.event.flowType = RoutedFlowType(event)
                       /\ routed[r].passed.event.eventType = event.eventType
                       /\ routed[r].passed.event.eventId = event.eventId
                       /\ routed[r].passed.event.payload = event.payload
                       /\ calls[routed[r].call].pathway = key
                       /\ calls[routed[r].call].eventId = event.eventId
                       /\ routed[r].thrown.src # "notFound"
              /\ ~routed[r].registered
                    => /\ routed[r].pc = "rejected"
                       /\ routed[r].thrown = PathwayNotFoundError(key)
                       /\ routed[r].processCalls = 0
                       /\ calls[routed[r].call] = IdleCall

\* an event whose aggregator differs from its flowType was routed to the
\* aggregator's key and its handler ran
C30_Witness ==
    \E r \in RouterCalls :
       /\ GoodSecret(r)
       /\ routed[r].event.aggregator = "f1" /\ routed[r].event.flowType = "f2"
       /\ routed[r].pathwayKey = "f1/t1"
       /\ routed[r].pc = "resolved"
       /\ CountEv(calls[routed[r].call].trace, "handler") = 1

\* an event for a key that is not registered was refused
C30_WitnessNotFound ==
    \E r \in RouterCalls :
       /\ GoodSecret(r)
       /\ routed[r].thrown = PathwayNotFoundError("f2/t1")

-----------------------------------------------------------------------------
(* The audit handler and the success path of a dispatch *)

\* process call c was made with an audit handler configured, on a registered
\* key, with a payload its schema accepts
AuditCase(c) ==
    /\ calls[c].pc # "idle"
    /\ calls[c].seen.audit
    /\ calls[c].seen.registered
    /\ calls[c].seen.schema # UNDEF => ValueCheck(calls[c].seen.schema, calls[c].payload)

\* C31: with an audit handler configured, a process call on a registered key
\* with a schema-valid payload calls it once, with the key and the event, ahead
\* of `before` and of every handler invocation, and not again on retries; when
\* the audit handler throws, the call rejects with that exception and emits
\* nothing, invokes no handler and calls no setProcessed.
C31_AuditOnceAndFirst ==
    \A c \in CallIds :
       AuditCase(c) =>
          /\ CountEv(Tr(c), "audit") = 1
          /\ Tr(c)[1] = [ev |-> "audit", n |-> 0, src |-> "-",
                         pathway |-> calls[c].pathway, event |-> calls[c].eventId]
          /\ calls[c].seen.auditThrows
                => /\ calls[c].pc = "rejected"
                   /\ calls[c].thrown = AuditError
                   /\ Len(Tr(c)) = 1
          /\ ~calls[c].seen.auditThrows => calls[c].thrown # AuditError

\* an audited call whose handler was retried: the audit handler was called
\* once, ahead of `before`
C31_Witness ==
    \E c \in CallIds :
       /\ AuditCase(c) /\ ~calls[c].seen.auditThrows
       /\ CountEv(Tr(c), "handler") = 2
       /\ CountEv(Tr(c), "audit") = 1
       /\ FirstEv(Tr(c), "audit") < FirstEv(Tr(c), "before")

\* an audited call on a handled key whose audit handler threw
C31_WitnessThrew ==
    \E c \in CallIds :
       /\ AuditCase(c) /\ calls[c].seen.auditThrows
       /\ calls[c].seen.handler # UNDEF
       /\ calls[c].thrown = AuditError

\* C32: in one process call `after` is emitted at most once, and no handler
\* invocation follows an invocation that returned normally, whatever the
\* setProcessed call made after the successful invocation does.
C32_SuccessIsFinal ==
    \A c \in CallIds :
       /\ CountEv(Tr(c), "after") <= 1
       /\ \A i \in 1..Len(Tr(c)) : \A j \in 1..Len(Tr(c)) :
             (Tr(c)[i].ev = "handlerReturned" /\ Tr(c)[j].ev = "handler") => j < i

\* the kinds of emission a subscription of each type is owed
C33_Wanted(type) ==
    CASE type = "before" -> {"before"}
      [] type = "after" -> {"after"}
      [] type = "all" -> {"before", "after"}
      [] OTHER -> {"error"}

\* what a step of process call c owes subscription x: the emissions the step
\* made for x's key on channels x was attached to before the step
C33_Due(x, c) ==
    LET sub == subscriptions[x]
        owed == sub.state = "attached" /\ ~sub.stale /\ calls'[c].pathway = sub.path
        fresh == SubSeq(calls'[c].trace, Len(calls[c].trace) + 1, Len(calls'[c].trace))
        due == SelectSeq(fresh, LAMBDA e : owed /\ e.ev \in C33_Wanted(sub.type))
    IN  [i \in 1..Len(due) |->
            [ev |-> due[i].ev, pathway |-> sub.path, event |-> calls'[c].eventId]]

C33_Step ==
    \A x \in SubIds :
       subscriptions'[x].received =
          subscriptions[x].received \o C33_Due(x, "c1") \o C33_Due(x, "c2")

\* C33: a subscriber receives exactly the emissions made, after it attached, on
\* the channels its type names for its key: "before" (the default) the `before`
\* events, "after" the `after` events, "all" both; each once, none replayed
C33_SubscriberReceives == [][C33_Step]_vars

\* two subscribers of type "all" on one key: the first attached before the
\* dispatch and got both events, the second attached in between and got `after`
C33_Witness ==
    /\ subscriptions["x1"].state = "attached" /\ subscriptions["x1"].type = "all"
    /\ subscriptions["x2"].state = "attached" /\ subscriptions["x2"].type = "all"
    /\ subscriptions["x1"].path = subscriptions["x2"].path
    /\ Len(subscriptions["x1"].received) = 2
    /\ subscriptions["x1"].received[1].ev = "before"
    /\ subscriptions["x1"].received[2].ev = "after"
    /\ Len(subscriptions["x2"].received) = 1
    /\ subscriptions["x2"].received[1].ev = "after"

\* the handler invocations a step of process call c made
C39_Invoked(c) ==
    SelectSeq(SubSeq(calls'[c].trace, Len(calls[c].trace) + 1, Len(calls'[c].trace)),
              LAMBDA e : e.ev = "handler")

C39_Step ==
    /\ \A x \in SubIds :
          subscriptions[x].stale => subscriptions'[x].received = subscriptions[x].received
    /\ \A k \in Keys : handlers[k] # UNDEF => handlers'[k] = handlers[k]
    /\ \A k \in Keys :
          (handleOutcome' # handleOutcome /\ handleOutcome'.path = k /\ handlers[k] # UNDEF)
             => handleOutcome'.thrown = AlreadyHandledError
    /\ \A c \in CallIds : \A i \in 1..Len(C39_Invoked(c)) :
          C39_Invoked(c)[i].src = handlers[calls'[c].pathway]

\* C39: once a key is registered again, the subscribers attached before that
\* receive nothing more, on the before, after and error channels alike; the
\* handler bound to the key stays bound and is the one invoked, and a further
\* handle call on the key throws
C39_ReRegistrationDropsSubscribers == [][C39_Step]_vars

\* x1 was attached before the key was registered again and x2 after it; a
\* dispatch that followed reached x2 only, ran the handler bound first, and a
\* second handle call on the key was refused
C39_Witness ==
    /\ subscriptions["x1"].state = "attached" /\ subscriptions["x1"].stale
    /\ subscriptions["x1"].received = <<>>
    /\ subscriptions["x2"].state = "attached" /\ ~subscriptions["x2"].stale
    /\ subscriptions["x2"].path = subscriptions["x1"].path
    /\ subscriptions["x2"].type = subscriptions["x1"].type
    /\ Len(subscriptions["x2"].received) >= 1
    /\ \E c \in CallIds :
          /\ calls[c].pathway = subscriptions["x1"].path
          /\ CountEv(calls[c].trace, "handler") >= 1
    /\ handleOutcome.thrown = AlreadyHandledError
    /\ handleOutcome.path = subscriptions["x1"].path
    /\ handleOutcome.handler # handlers[handleOutcome.path]

\* C34: dispatches of one key are not serialized and each keeps its own retry
\* counter: a dispatch's counter counts its own retry delays only, it invokes
\* the handler at most maxRetries + 1 times, and it gives up on a handler
\* failure only after maxRetries + 1 invocations of its own, whatever the other
\* dispatch in flight does
C34_OwnRetryBudget ==
    \A c \in CallIds :
       calls[c].pc \notin {"idle"} /\ calls[c].seen.registered /\ calls[c].seen.handler # UNDEF
          => /\ calls[c].retryCount = CountEv(Tr(c), "sleep")
             /\ CountEv(Tr(c), "handler") = calls[c].retryCount + 1
                   \/ (calls[c].pc = "sleeping"
                         /\ CountEv(Tr(c), "handler") = calls[c].retryCount)
             /\ CountEv(Tr(c), "handler") <= calls[c].maxRetries + 1
             /\ calls[c].pc = "rejected"
                   => CountEv(Tr(c), "handler") = calls[c].maxRetries + 1

\* the handler is entered for the second event while the first event's
\* dispatch waits out its retry delay, on the same key; the first has used a
\* retry and the second has not
C34_Witness ==
    /\ calls["c1"].pc = "sleeping" /\ calls["c1"].retryCount = 1
    /\ calls["c2"].pc = "awaitHandler" /\ calls["c2"].retryCount = 0
    /\ calls["c1"].pathway = calls["c2"].pathway
    /\ calls["c1"].eventId # calls["c2"].eventId

\* both dispatches are inside a handler invocation at once, and the second goes
\* on to use its whole budget after the first has used its own
C34_WitnessBothInHandler ==
    /\ calls["c1"].pc = "awaitHandler" /\ calls["c1"].retryCount = calls["c1"].maxRetries
    /\ calls["c2"].pc = "awaitHandler" /\ calls["c2"].retryCount = calls["c2"].maxRetries
    /\ calls["c1"].maxRetries >= 1
    /\ calls["c1"].pathway = calls["c2"].pathway
    /\ calls["c1"].eventId # calls["c2"].eventId

\* C35: a process call, once made, settles (it resolves or rejects) when every
\* handler invocation and every setProcessed call terminates, and it never
\* invokes the handler more than maxRetries + 1 times
C35_ProcessTerminates ==
    /\ [](\A c \in CallIds :
            calls[c].pc # "idle" => CountEv(Tr(c), "handler") <= calls[c].maxRetries + 1)
    /\ \A c \in CallIds : (calls[c].pc # "idle") ~> Settled(c)

\* a call that settled after using every retry of a budget of at least one
C35_Witness ==
    \E c \in CallIds :
       /\ Settled(c)
       /\ calls[c].maxRetries >= 1
       /\ CountEv(Tr(c), "handler") = calls[c].maxRetries + 1

\* the i-th wait of write w is running
C36_Running(w, i) ==
    i <= Len(Waits(w)) /\ Waits(w)[i].pc \in {"polling", "sleeping"}
\* the i-th wait of write w has resolved or has thrown the timeout error
C36_Ended(w, i) ==
    i <= Len(Waits(w)) /\ Waits(w)[i].pc \in {"done", "timedOut"}

\* an isProcessed call of the i-th wait of write w returned in this step
C36_Polled(w, i) ==
    /\ i <= Len(writes[w].waits) /\ i <= Len(writes'[w].waits)
    /\ Len(writes'[w].waits[i].answers) = Len(writes[w].waits[i].answers) + 1

C36_Step ==
    \A w \in WriteIds : \A i \in {1, 2} :
       /\ C36_Polled(w, i) =>
             LET old == writes[w].waits[i]
                 new == writes'[w].waits[i]
                 answer == new.answers[Len(new.answers)]
             IN  /\ answer => new.pc = "done"
                 /\ (~answer /\ now - old.startTime > old.timeoutMs) => new.pc = "timedOut"
                 /\ (~answer /\ now - old.startTime <= old.timeoutMs) => new.pc = "sleeping"
       /\ (/\ i <= Len(writes[w].waits) /\ i <= Len(writes'[w].waits)
           /\ writes'[w].waits[i].pc # writes[w].waits[i].pc
           /\ writes'[w].waits[i].pc \in {"done", "timedOut"}) => C36_Polled(w, i)

\* C36: a confirmation wait ends when every isProcessed call returns: it
\* resolves at the first poll that returns true, it throws the timeout error at
\* the first poll that returns false later than timeoutMs after its start, and
\* it ends in no other step
C36_WaitTerminates ==
    /\ [][C36_Step]_vars
    /\ \A w \in WriteIds : \A i \in {1, 2} : C36_Running(w, i) ~> C36_Ended(w, i)

\* a wait that timed out after three polls that returned false, the last one
\* later than the timeout
C36_Witness ==
    \E w \in WriteIds : \E i \in 1..Len(Waits(w)) :
       /\ Waits(w)[i].pc = "timedOut"
       /\ Len(Waits(w)[i].answers) >= 3
       /\ \A j \in 1..Len(Waits(w)[i].answers) : ~Waits(w)[i].answers[j]

\* a wait that resolved at its third poll
C36_WitnessResolved ==
    \E w \in WriteIds : \E i \in 1..Len(Waits(w)) :
       /\ Waits(w)[i].pc = "done"
       /\ Waits(w)[i].answers = <<FALSE, FALSE, TRUE>>

\* C37: the resolver last registered for a session is what a lookup returns
\* until its time to live has elapsed since that registration, and a lookup
\* returns nothing afterwards, or when none was registered; a registration
\* restarts the time to live, and no other session's expiry or registration
\* changes the answer
C37_SessionResolverTtl ==
    \A s \in SessionIds :
       LET last == sessionSets[s]
           expiresAt == last.at + DEFAULT_SESSION_USER_RESOLVER_TTL_MS
       IN  IF last = NeverSet THEN GetSessionUserResolver(s) = UNDEF
           ELSE /\ now < expiresAt => GetSessionUserResolver(s) = last.resolver
                /\ now > expiresAt => GetSessionUserResolver(s) = UNDEF
                /\ GetSessionUserResolver(s) \in {UNDEF, last.resolver}

\* s1 was registered, registered again with another resolver later, and its
\* entry is still there after the time to live of the first registration,
\* while the entry of s2 has expired
C37_Witness ==
    /\ sessionSets["s1"].at > 0
    /\ now >= DEFAULT_SESSION_USER_RESOLVER_TTL_MS
    /\ now < sessionSets["s1"].at + DEFAULT_SESSION_USER_RESOLVER_TTL_MS
    /\ GetSessionUserResolver("s1") = "u2"
    /\ sessionSets["s2"] # NeverSet
    /\ GetSessionUserResolver("s2") = UNDEF

\* the entry of s1 expired after it was registered again
C37_WitnessExpired ==
    /\ sessionSets["s1"].at > 0
    /\ now = sessionSets["s1"].at + DEFAULT_SESSION_USER_RESOLVER_TTL_MS
    /\ GetSessionUserResolver("s1") = UNDEF

\* C38: an isProcessed call answers false for an id that was never marked,
\* true for an id marked less than the store's time to live ago, and false for
\* an id whose last mark is older than that; marks of other ids play no part
C38_StateStoreTtl ==
    LET p == stateStore.probe
        expiresAt == Coalesce(p.markedAt, 0) + ConfiguredTtl(stateStore)
    IN  p # NoProbe =>
           IF p.markedAt = None THEN ~p.answer
           ELSE /\ p.at < expiresAt => p.answer
                /\ p.at > expiresAt => ~p.answer

C40_WitnessBatchRejected ==
    \E w \in WriteIds :
       /\ writes[w].kind = "writeBatch"
       /\ writes[w].pc = "rejected"
       /\ writes[w].writerCalls = 1
       /\ writes[w].userId # UNDEF
       /\ writes[w].sent # writes[w].metadata

====
